---- MODULE Spec2Model ----
(***************************************************************************)
(* Model of the TCP engine of pcap2socks (src/src/lib.rs): the Forwarder   *)
(* (send side, behind one mutex) and the Redirector (receive loop) for one *)
(* flow key, together with the stream worker that calls back into the      *)
(* Forwarder through ForwardStream.                                        *)
(*                                                                         *)
(* Sequence numbers are u32 in the program.  TLC's integers are 32-bit     *)
(* signed, so the sequence space is modelled at a reduced width: U32_MAX   *)
(* stands for u32::MAX and MAX_U32_WINDOW_SIZE for the plausibility        *)
(* window, both scaled down.  Every addition and subtraction keeps the     *)
(* program's own overflow handling (checked_add / checked_sub fallbacks).  *)
(*                                                                         *)
(* A HashMap entry for the one modelled key is an option: <<>> is an       *)
(* absent entry, <<x>> an entry holding x.                                 *)
(*                                                                         *)
(* Bytes are modelled by their identity: the k-th byte the worker forwards *)
(* is the number k, a byte sent by the client is its own sequence number.  *)
(* The capture sender is assumed not to fail; the IPv4 identification      *)
(* counter is no part of the flow state modelled here.                     *)
(***************************************************************************)
EXTENDS Integers, Sequences, FiniteSets, TLC

\* ------------------------------------------------------------- bounds
\* Width of the modelled sequence space (stands for u32::MAX).
U32_MAX == 31
\* Plausibility window (stands for 16 MiB), scaled with the sequence space.
MAX_U32_WINDOW_SIZE == 8
\* Cap on the duplicate-ACK count a client is made to reach.
MaxDup == 3

\* ------------------------------------------------------------- program constants
RTO == 3000
DUPLICATES_BEFORE_FAST_RETRANSMISSION == 3
RETRANSMISSION_COOL_DOWN == 200
MAX_RECV_WSCALE == 8
\* Forwarder.mtu as given to Forwarder::new, and the header sizes of the
\* packet layer.
Mtu == 1500
IPV4_HEADER_SIZE == 20
TCP_HEADER_SIZE == 20

U32_MOD == U32_MAX + 1

\* ------------------------------------------------------------- scenario
\* The inputs the environment draws from and the width of the 16-bit fields;
\* fixed by Init and never changed.
VARIABLE cfg

\* u16::MAX: 65535, except in the scenario that scales the 16-bit fields the
\* way U32_MAX scales the sequence space.
U16_MAX == cfg.u16_max

\* ------------------------------------------------------------- options
None == <<>>
Some(x) == <<x>>
IsSome(o) == o # <<>>
UnwrapOr(o, d) == IF o = <<>> THEN d ELSE o[1]

Min(a, b) == IF a <= b THEN a ELSE b
Max(a, b) == IF a >= b THEN a ELSE b
Shl(x, n) == x * (2 ^ n)

\* Exact modular arithmetic of the sequence space (what TCP means).
ModAdd(a, n) == (a + n) % U32_MOD
ModSub(a, b) == (a - b + U32_MOD) % U32_MOD

\* a.checked_add(n).unwrap_or_else(|| n - (u32::MAX - a))
add_u32(a, n) == IF a + n <= U32_MAX THEN a + n ELSE n - (U32_MAX - a)
\* a.checked_sub(b).unwrap_or_else(|| a + (u32::MAX - b))
sub_u32(a, b) == IF a >= b THEN a - b ELSE a + (U32_MAX - b)

\* ------------------------------------------------------------- send-side cache (cache::Queue)
\* A byte window whose left edge is labelled `sequence`; every byte keeps the
\* instant it was appended (or last returned by get_timed_out).
Queue_with_capacity(capacity, sequence) ==
    [capacity |-> capacity, sequence |-> sequence, data |-> <<>>, stamps |-> <<>>]

Queue_len(q) == Len(q.data)
Queue_is_empty(q) == Len(q.data) = 0
Queue_sequence(q) == q.sequence
Queue_get_all(q) == q.data

\* append(bytes): fails if the remaining capacity is smaller than the length.
Queue_append(q, bytes, now) ==
    IF q.capacity - Len(q.data) < Len(bytes)
    THEN [ok |-> FALSE, q |-> q]
    ELSE [ok |-> TRUE,
          q  |-> [q EXCEPT !.data = q.data \o bytes,
                           !.stamps = q.stamps \o [i \in 1..Len(bytes) |-> now]]]

\* get(seq, len): a slice inside [left, right); fails if out of range.
Queue_get(q, sequence, size) ==
    LET off == ModSub(sequence, q.sequence) IN
    IF off + size <= Len(q.data)
    THEN [ok |-> TRUE, bytes |-> SubSeq(q.data, off + 1, off + size)]
    ELSE [ok |-> FALSE, bytes |-> <<>>]

\* Number of bytes, contiguous from the left edge, whose stamp is older than rto.
RECURSIVE Queue_timed_out_count(_, _, _, _)
Queue_timed_out_count(q, rto, now, n) ==
    IF n < Len(q.data) /\ now - q.stamps[n + 1] > rto
    THEN Queue_timed_out_count(q, rto, now, n + 1)
    ELSE n

\* get_timed_out(rto): the timed out prefix; its stamps are reset to now.
Queue_get_timed_out(q, rto, now) ==
    LET n == Queue_timed_out_count(q, rto, now, 0) IN
    [bytes |-> SubSeq(q.data, 1, n),
     q |-> [q EXCEPT !.stamps = [i \in 1..Len(q.stamps) |->
                                    IF i <= n THEN now ELSE q.stamps[i]]]]

\* invalidate_to(seq): advance the left edge to seq; no-op if seq is not ahead
\* of the left edge within the plausibility window.
Queue_invalidate_to(q, sequence) ==
    LET delta == ModSub(sequence, q.sequence)
        n == Min(delta, Len(q.data)) IN
    IF delta = 0 \/ delta > MAX_U32_WINDOW_SIZE THEN q
    ELSE [q EXCEPT !.sequence = sequence,
                   !.data = SubSeq(q.data, n + 1, Len(q.data)),
                   !.stamps = SubSeq(q.stamps, n + 1, Len(q.stamps))]

\* ------------------------------------------------------------- reassembly window (cache::Window)
\* `filled` holds the sequence numbers received ahead of recv_next.
Window_with_capacity(capacity, sequence) ==
    [capacity |-> capacity, recv_next |-> sequence, filled |-> {}]

Window_recv_next(w) == w.recv_next
Window_is_empty(w) == w.filled = {}

\* Extent of the buffered bytes, from recv_next to the last filled byte.
Window_span(w) ==
    IF w.filled = {} THEN 0
    ELSE LET offs == {ModSub(p, w.recv_next) : p \in w.filled} IN
         (CHOOSE o \in offs : \A o2 \in offs : o2 <= o) + 1

Window_remaining_size(w) == w.capacity - Window_span(w)

\* Length of the contiguous filled prefix of `filled` starting at sequence s.
RECURSIVE Window_prefix(_, _, _)
Window_prefix(filled, s, n) ==
    IF ModAdd(s, n) \in filled /\ n < U32_MOD
    THEN Window_prefix(filled, s, n + 1)
    ELSE n

\* append(seq, bytes): bytes before recv_next are ignored; returns the newly
\* contiguous prefix (None when nothing became contiguous) and advances
\* recv_next past it.
Window_append(w, sequence, bytes) ==
    LET pos == {ModAdd(sequence, i - 1) : i \in 1..Len(bytes)}
        ahead == {p \in pos : ModSub(p, w.recv_next) <= MAX_U32_WINDOW_SIZE}
        filled == w.filled \cup ahead
        n == Window_prefix(filled, w.recv_next, 0)
        payload == [i \in 1..n |-> ModAdd(w.recv_next, i - 1)] IN
    IF \E p \in ahead : ModSub(p, w.recv_next) >= w.capacity
    THEN [ok |-> FALSE, w |-> w, payload |-> None]
    ELSE [ok |-> TRUE,
          w |-> [w EXCEPT !.recv_next = ModAdd(w.recv_next, n),
                          !.filled = filled \ {payload[i] : i \in 1..n}],
          payload |-> IF n > 0 THEN Some(payload) ELSE None]

\* filled(): the filled ranges right of recv_next as (begin, end) with end
\* exclusive, leftmost first, at most 4.
RECURSIVE Window_ranges(_, _, _)
Window_ranges(w, from, acc) ==
    LET offs == {o \in {ModSub(p, w.recv_next) : p \in w.filled} : o >= from} IN
    IF offs = {} \/ Len(acc) >= 4 THEN acc
    ELSE LET b == CHOOSE o \in offs : \A o2 \in offs : o <= o2
             n == Window_prefix(w.filled, ModAdd(w.recv_next, b), 0) IN
         Window_ranges(w, b + n,
             Append(acc, <<ModAdd(w.recv_next, b), ModAdd(w.recv_next, b + n)>>))

Window_filled(w) == Window_ranges(w, 0, <<>>)

\* ------------------------------------------------------------- frames
\* A TCP segment handed to the capture sender.  kind is the flag set of the
\* constructor used (Tcp::new_ack, new_ack_syn, new_ack_rst, new_rst, new_fin).
Frame(kind, sequence, acknowledgement, window, payload, sacks) ==
    [kind |-> kind, sequence |-> sequence, acknowledgement |-> acknowledgement,
     window |-> window, payload |-> payload, sacks |-> sacks]

\* tcp.len(): the header with its SACK option (packet layer).
Tcp_len(sacks) ==
    TCP_HEADER_SIZE + (IF IsSome(sacks) THEN 4 + 8 * Len(sacks[1]) ELSE 0)

\* ------------------------------------------------------------- Forwarder
\* The per-flow maps of the Forwarder for the modelled key.
ForwarderNew ==
    [tcp_fin |-> None, tcp_send_window |-> None, tcp_send_mss |-> None,
     tcp_sequence |-> None, tcp_acknowledgement |-> None, tcp_window |-> None,
     tcp_wscale |-> None, tcp_sacks |-> None, tcp_ts |-> None,
     tcp_cache |-> None, tcp_queue |-> None]

\* Result of a Forwarder method: the new state, the frames emitted in order,
\* whether it returned Ok, and spin when it never returns.
Ret(f, out, ok) == [f |-> f, out |-> out, ok |-> ok, spin |-> FALSE]

set_tcp_send_window(f, window) == [f EXCEPT !.tcp_send_window = Some(window)]
set_tcp_send_mss(f, mss) == [f EXCEPT !.tcp_send_mss = Some(mss)]
set_tcp_sequence(f, sequence) == [f EXCEPT !.tcp_sequence = Some(sequence)]
set_tcp_acknowledgement(f, sequence) == [f EXCEPT !.tcp_acknowledgement = Some(sequence)]
set_tcp_window(f, window) == [f EXCEPT !.tcp_window = Some(window)]
set_tcp_wscale(f, wscale) == [f EXCEPT !.tcp_wscale = Some(wscale)]
set_tcp_ts(f, ts) == [f EXCEPT !.tcp_ts = Some(ts)]

add_tcp_acknowledgement(f, n) ==
    [f EXCEPT !.tcp_acknowledgement = Some(add_u32(UnwrapOr(f.tcp_acknowledgement, 0), n))]

set_tcp_sacks(f, sacks) ==
    IF Len(sacks) <= 0 THEN [f EXCEPT !.tcp_sacks = None]
    ELSE [f EXCEPT !.tcp_sacks = Some(SubSeq(sacks, 1, Min(4, Len(sacks))))]

invalidate_cache_to(f, sequence) ==
    IF IsSome(f.tcp_cache)
    THEN [f EXCEPT !.tcp_cache = Some(Queue_invalidate_to(f.tcp_cache[1], sequence))]
    ELSE f

Forwarder_remove(f) == ForwarderNew

get_cache_size(f) ==
    (IF IsSome(f.tcp_cache) THEN Queue_len(f.tcp_cache[1]) ELSE 0)
    + (IF IsSome(f.tcp_queue) THEN Len(f.tcp_queue[1]) ELSE 0)

\* Whether the loop of send_tcp_ack_raw, in its turn i, ever finds
\* max_payload_size * i < payload.len() false: the product grows with i only
\* when max_payload_size is not 0.
send_tcp_ack_raw_leaves(max_payload_size, len, i) ==
    \E j \in i..(i + len) : ~(max_payload_size * j < len)

\* The segmentation loop of send_tcp_ack_raw, iteration i.  With a segment size
\* of 0 it sends empty segments without end.
RECURSIVE send_tcp_ack_raw_loop(_, _, _, _, _, _)
send_tcp_ack_raw_loop(f, sequence, payload, max_payload_size, i, out) ==
    IF ~(max_payload_size * i < Len(payload)) THEN Ret(f, out, TRUE)
    ELSE IF ~send_tcp_ack_raw_leaves(max_payload_size, Len(payload), i)
    THEN [Ret(f, Append(out, Frame("ACK", sequence, UnwrapOr(f.tcp_acknowledgement, 0),
                                   UnwrapOr(f.tcp_window, U16_MAX), <<>>, f.tcp_sacks)),
              FALSE) EXCEPT !.spin = TRUE]
    ELSE LET length == Min(max_payload_size, Len(payload) - i * max_payload_size)
             seg == SubSeq(payload, i * max_payload_size + 1, i * max_payload_size + length)
             seq_i == add_u32(sequence, i * max_payload_size)
             tcp == Frame("ACK", seq_i, UnwrapOr(f.tcp_acknowledgement, 0),
                          UnwrapOr(f.tcp_window, U16_MAX), seg, f.tcp_sacks)
             next_sequence == add_u32(seq_i, length)
             record_sequence == UnwrapOr(f.tcp_sequence, 0)
             sub_sequence == sub_u32(next_sequence, record_sequence)
             f2 == IF sub_sequence <= MAX_U32_WINDOW_SIZE
                   THEN [f EXCEPT !.tcp_sequence = Some(next_sequence)]
                   ELSE f
         IN send_tcp_ack_raw_loop(f2, sequence, payload, max_payload_size, i + 1,
                                  Append(out, tcp))

send_tcp_ack_raw(f, sequence, payload) ==
    LET header_size == IPV4_HEADER_SIZE + Tcp_len(f.tcp_sacks)
        max_payload_size == IF IsSome(f.tcp_send_mss) THEN f.tcp_send_mss[1]
                            ELSE Mtu - header_size
    IN send_tcp_ack_raw_loop(f, sequence, payload, max_payload_size, 0, <<>>)

send_tcp_ack_0(f) ==
    Ret(f, <<Frame("ACK", UnwrapOr(f.tcp_sequence, 0), UnwrapOr(f.tcp_acknowledgement, 0),
                   UnwrapOr(f.tcp_window, U16_MAX), <<>>, f.tcp_sacks)>>, TRUE)

send_tcp_ack_syn(f, mss, wscale, sack_perm) ==
    LET tcp == [Frame("ACK_SYN", UnwrapOr(f.tcp_sequence, 0),
                      UnwrapOr(f.tcp_acknowledgement, 0),
                      UnwrapOr(f.tcp_window, U16_MAX), <<>>, None)
                EXCEPT !.sacks = None]
        s == UnwrapOr(f.tcp_sequence, 0)
    IN Ret([f EXCEPT !.tcp_sequence = Some(IF s + 1 <= U32_MAX THEN s + 1 ELSE 0)],
           <<tcp>>, TRUE)

send_tcp_ack_rst(f) ==
    Ret(f, <<Frame("ACK_RST", UnwrapOr(f.tcp_sequence, 0), UnwrapOr(f.tcp_acknowledgement, 0),
                   UnwrapOr(f.tcp_window, U16_MAX), <<>>, None)>>, TRUE)

\* send_tcp_rst that sends nothing.
send_tcp_rst_silent(f) == Ret(f, <<>>, TRUE)

send_tcp_rst(f) ==
    Ret(f, <<Frame("RST", UnwrapOr(f.tcp_sequence, 0), 0,
                   UnwrapOr(f.tcp_window, U16_MAX), <<>>, None)>>, TRUE)

send_tcp_fin(f) ==
    Ret(f, <<Frame("FIN", UnwrapOr(f.tcp_sequence, 0), UnwrapOr(f.tcp_acknowledgement, 0),
                   UnwrapOr(f.tcp_window, U16_MAX), <<>>, None)>>, TRUE)

\* The "FIN" block without its test of the cache.
is_fin_due_with_cache(f) ==
    /\ IsSome(f.tcp_fin)
    /\ (IsSome(f.tcp_queue) => Len(f.tcp_queue[1]) = 0)

\* The "FIN" block shared by send_tcp_ack and retransmit_tcp_ack_timedout.
is_fin_due(f) ==
    /\ IsSome(f.tcp_fin)
    /\ (IsSome(f.tcp_queue) => Len(f.tcp_queue[1]) = 0)
    /\ (IsSome(f.tcp_cache) => Queue_is_empty(f.tcp_cache[1]))

\* Sends TCP ACK packets from the queue, then the FIN when it is due.
send_tcp_ack(f, now) ==
    LET window == UnwrapOr(f.tcp_send_window, 0)
        sequence == UnwrapOr(f.tcp_sequence, 0)
        wscale == UnwrapOr(f.tcp_wscale, 0)
        drains == IsSome(f.tcp_queue) /\ window > 0
        cache == IF IsSome(f.tcp_cache) THEN f.tcp_cache[1]
                 ELSE Queue_with_capacity(Shl(U16_MAX, wscale), sequence)
        sent_size == Queue_len(cache)
        remain_size == Min(IF window >= sent_size THEN window - sent_size ELSE 0, U16_MAX)
        size == IF drains THEN Min(remain_size, Len(f.tcp_queue[1])) ELSE 0
        payload == IF size > 0 THEN SubSeq(f.tcp_queue[1], 1, size) ELSE <<>>
        appended == Queue_append(cache, payload, now)
        f1 == IF ~drains THEN f
              ELSE IF size = 0 THEN [f EXCEPT !.tcp_cache = Some(cache)]
              ELSE [f EXCEPT !.tcp_cache = Some(appended.q),
                             !.tcp_queue = Some(SubSeq(f.tcp_queue[1], size + 1,
                                                       Len(f.tcp_queue[1])))]
        sent == IF size > 0 /\ appended.ok THEN send_tcp_ack_raw(f1, sequence, payload)
                ELSE Ret(f1, <<>>, TRUE)
    IN IF size > 0 /\ ~appended.ok THEN Ret(f1, <<>>, FALSE)
       ELSE IF sent.spin THEN sent
       ELSE IF is_fin_due(sent.f)
       THEN Ret(sent.f, sent.out \o send_tcp_fin(sent.f).out, TRUE)
       ELSE sent

append_to_queue(f, payload, now) ==
    send_tcp_ack([f EXCEPT !.tcp_queue = Some(UnwrapOr(f.tcp_queue, <<>>) \o payload)], now)

retransmit_tcp_ack(f) ==
    IF ~IsSome(f.tcp_cache) THEN Ret(f, <<>>, TRUE)
    ELSE LET payload == Queue_get_all(f.tcp_cache[1])
             sequence == Queue_sequence(f.tcp_cache[1])
         IN IF Len(payload) > 0 THEN send_tcp_ack_raw(f, sequence, payload)
            ELSE Ret(f, <<>>, TRUE)

disjoint_u32_range(main, sub) ==
    LET size_main == sub_u32(main[2], main[1])
        diff_first == sub_u32(sub[1], main[1])
        diff_second == sub_u32(sub[2], main[2])
        diff == sub_u32(sub[2], main[1])
    IN IF diff_first <= MAX_U32_WINDOW_SIZE
       THEN IF diff_second > MAX_U32_WINDOW_SIZE
            THEN <<<<main[1], sub[1]>>, <<sub[2], main[2]>>>>
            ELSE IF diff_first >= size_main
                 THEN <<<<main[1], main[2]>>>>
                 ELSE <<<<main[1], sub[1]>>>>
       ELSE IF diff_second > MAX_U32_WINDOW_SIZE
            THEN IF diff > MAX_U32_WINDOW_SIZE
                 THEN <<<<main[1], main[2]>>>>
                 ELSE <<<<sub[2], main[2]>>>>
            ELSE <<>>

\* One pass of "for range in ranges { for temp_range in disjoint_u32_range(range, sack) }".
RECURSIVE disjoint_all(_, _)
disjoint_all(ranges, sack) ==
    IF ranges = <<>> THEN <<>>
    ELSE disjoint_u32_range(Head(ranges), sack) \o disjoint_all(Tail(ranges), sack)

\* "for sack in sacks { ... ranges = temp_ranges }".
RECURSIVE disjoint_ranges(_, _)
disjoint_ranges(ranges, sacks) ==
    IF sacks = <<>> THEN ranges
    ELSE disjoint_ranges(disjoint_all(ranges, Head(sacks)), Tail(sacks))

\* "for range in ranges { ... get(range.0, size)? ... send_tcp_ack_raw(...)? }".
RECURSIVE retransmit_ranges(_, _, _)
retransmit_ranges(f, ranges, out) ==
    IF ranges = <<>> THEN Ret(f, out, TRUE)
    ELSE LET range == Head(ranges)
             size == sub_u32(range[2], range[1])
             got == Queue_get(f.tcp_cache[1], range[1], size)
             sent == IF Len(got.bytes) > 0 THEN send_tcp_ack_raw(f, range[1], got.bytes)
                     ELSE Ret(f, <<>>, TRUE)
         IN IF ~got.ok THEN Ret(f, out, FALSE)
            ELSE IF sent.spin THEN [sent EXCEPT !.out = out \o sent.out]
            ELSE retransmit_ranges(sent.f, Tail(ranges), out \o sent.out)

retransmit_tcp_ack_without(f, sacks) ==
    IF ~IsSome(f.tcp_cache) THEN Ret(f, <<>>, FALSE)
    ELSE LET sequence0 == Queue_sequence(f.tcp_cache[1])
             size0 == Queue_len(f.tcp_cache[1])
             recv_next == add_u32(sequence0, size0)
             ranges == disjoint_ranges(<<<<sequence0, recv_next>>>>, sacks)
             last_recv_next == ranges[Len(ranges)][2]
             size == IF ranges = <<>> THEN size0
                     ELSE IF recv_next >= last_recv_next THEN recv_next - last_recv_next
                     ELSE (sequence0 + (U32_MAX - last_recv_next)) % U32_MOD
             sequence == IF ranges = <<>> THEN sequence0 ELSE last_recv_next
             first == retransmit_ranges(f, ranges, <<>>)
             got == Queue_get(first.f.tcp_cache[1], sequence, size)
             sent == IF Len(got.bytes) > 0 THEN send_tcp_ack_raw(first.f, sequence, got.bytes)
                     ELSE Ret(first.f, <<>>, TRUE)
         IN IF ~first.ok THEN first
            ELSE IF ~got.ok THEN Ret(first.f, first.out, FALSE)
            ELSE [sent EXCEPT !.out = first.out \o sent.out]

retransmit_tcp_ack_timedout(f, now) ==
    LET timed == IF IsSome(f.tcp_cache) THEN Queue_get_timed_out(f.tcp_cache[1], RTO, now)
                 ELSE [bytes |-> <<>>, q |-> <<>>]
        sequence == IF IsSome(f.tcp_cache) THEN Queue_sequence(f.tcp_cache[1]) ELSE 0
        f1 == IF IsSome(f.tcp_cache) THEN [f EXCEPT !.tcp_cache = Some(timed.q)] ELSE f
    IN IF Len(timed.bytes) > 0 THEN send_tcp_ack_raw(f1, sequence, timed.bytes)
       ELSE IF is_fin_due(f1) THEN send_tcp_fin(f1)
       ELSE Ret(f1, <<>>, TRUE)

\* impl ForwardStream for Forwarder
ForwardStream_forward(f, payload, now) == append_to_queue(f, payload, now)
ForwardStream_tick(f, now) == retransmit_tcp_ack_timedout(f, now)
ForwardStream_close(f, now) == send_tcp_ack([f EXCEPT !.tcp_fin = Some(now)], now)

\* ------------------------------------------------------------- Redirector
\* The per-flow maps of the Redirector for the modelled key.  streams holds the
\* StreamWorker handle; is_write_closed is its own flag, is_read_closed is
\* shared with the worker task.
RedirectorNew ==
    [streams |-> None, tcp_recv_next |-> None, tcp_acknowledgement |-> None,
     tcp_duplicate |-> None, tcp_last_retransmission |-> None, tcp_wscale |-> None,
     tcp_sack_perm |-> None, tcp_cache |-> None]

Redirector_remove(r) == RedirectorNew

\* StreamWorker handle as inserted by handle_tcp_syn, and StreamWorker::close.
StreamWorkerNew == [is_write_closed |-> FALSE]
StreamWorker_close(stream) == [stream EXCEPT !.is_write_closed = TRUE]

update_tcp_acknowledgement(r, tcp) ==
    LET record_acknowledgement == UnwrapOr(r.tcp_acknowledgement, 0)
        sub_acknowledgement == sub_u32(tcp.acknowledgement, record_acknowledgement)
    IN IF sub_acknowledgement = 0
       THEN [r EXCEPT !.tcp_duplicate = Some(UnwrapOr(r.tcp_duplicate, 0) + 1)]
       ELSE IF sub_acknowledgement <= MAX_U32_WINDOW_SIZE
       THEN [r EXCEPT !.tcp_acknowledgement = Some(tcp.acknowledgement),
                      !.tcp_duplicate = Some(0)]
       ELSE r

\* Result of a Redirector handler: both sides' state, the frames emitted, whether
\* it returned Ok, how the flow was torn down if it was ("none" otherwise), and
\* for handle_tcp_ack: whether it is suspended in stream.send(payload).await,
\* the payload the window returned and its length n (-1 when the segment had no
\* payload), whether a fast retransmit was called and the frames it emitted.
HRet(f, r, frames, ok, torn) ==
    [f |-> f, r |-> r, out |-> frames, ok |-> ok, torn |-> torn, await |-> FALSE,
     locked |-> FALSE, spin |-> FALSE,
     payload |-> <<>>, n |-> -1, fr |-> FALSE, fr_out |-> <<>>]

\* tcp.is_zero_window() of the packet layer.
is_zero_window(tcp) == tcp.window = 0

\* (cache.remaining_size() << wscale as usize) as u16: the low 16 bits of the
\* shifted size, computed without forming the shifted size.
advertised_window(cache, wscale) ==
    Shl(Window_remaining_size(cache) % ((U16_MAX + 1) \div (2 ^ wscale)), wscale)

handle_tcp_fin(f, r, tcp, read_closed) ==
    LET is_exist == IsSome(r.streams)
        is_readable == is_exist /\ ~read_closed
        payload_size == tcp.len
        recv_next == add_u32(tcp.sequence, payload_size)
        is_cache_empty == IsSome(r.tcp_cache) => Window_is_empty(r.tcp_cache[1])
        f1 == set_tcp_acknowledgement(f, IF recv_next + 1 <= U32_MAX THEN recv_next + 1 ELSE 0)
        f2 == IF IsSome(tcp.ts) THEN set_tcp_ts(f1, tcp.ts[1]) ELSE f1
        rn == UnwrapOr(r.tcp_recv_next, 0)
        r1 == [r EXCEPT !.tcp_recv_next = Some(IF rn + 1 <= U32_MAX THEN rn + 1 ELSE U32_MAX)]
        ack0 == send_tcp_ack_0(f2)
    IN IF ~is_exist THEN HRet(f, r, send_tcp_rst(f).out, TRUE, "none")
       ELSE IF recv_next = UnwrapOr(r.tcp_recv_next, 0) /\ is_cache_empty
       THEN IF is_readable
            THEN HRet(ack0.f, [r1 EXCEPT !.streams = Some(StreamWorker_close(r.streams[1]))],
                      ack0.out, TRUE, "none")
            ELSE HRet(Forwarder_remove(ack0.f), Redirector_remove(r1), ack0.out, TRUE, "fin")
       ELSE HRet(f, r, send_tcp_ack_0(f).out, TRUE, "none")

\* The end of handle_tcp_ack: "FIN" and "Trigger sending remaining data".
handle_tcp_ack_tail(f, r, tcp, read_closed, t, frames) ==
    IF tcp.fin /\ Window_is_empty(r.tcp_cache[1])
    THEN LET h == handle_tcp_fin(f, r, tcp, read_closed)
         IN [h EXCEPT !.out = frames \o h.out]
    ELSE LET s == send_tcp_ack(f, t)
         IN [HRet(s.f, r, frames \o s.out, s.ok, "none") EXCEPT !.spin = s.spin]

\* "LAST_ACK": the bare ACK that tears the flow down.
is_last_ack(f, r) ==
    /\ ~(IsSome(r.streams) /\ ~r.streams[1].is_write_closed)
    /\ get_cache_size(f) = 0

is_cooled_down(r, t) ==
    /\ IsSome(r.tcp_last_retransmission)
    /\ t - r.tcp_last_retransmission[1] < RETRANSMISSION_COOL_DOWN

\* The duplicate-ACK rule without its zero-window test.
is_fast_retransmit_any_window(r, tcp, t) ==
    /\ UnwrapOr(r.tcp_duplicate, 0) >= DUPLICATES_BEFORE_FAST_RETRANSMISSION
    /\ ~is_cooled_down(r, t)

\* The conditions under which the bare-ACK branch calls a retransmit.
is_fast_retransmit(r, tcp, t) ==
    /\ UnwrapOr(r.tcp_duplicate, 0) >= DUPLICATES_BEFORE_FAST_RETRANSMISSION
    /\ ~is_zero_window(tcp)
    /\ ~is_cooled_down(r, t)

\* handle_tcp_ack up to stream.send(payload).await, or to its end when the
\* segment delivers nothing.
handle_tcp_ack(f, r, tcp, read_closed, t) ==
    LET is_exist == IsSome(r.streams)
        r1 == update_tcp_acknowledgement(r, tcp)
        wscale == UnwrapOr(r1.tcp_wscale, 0)
        f1 == set_tcp_send_window(invalidate_cache_to(f, tcp.acknowledgement),
                                  Shl(tcp.window, wscale))
        r2 == IF IsSome(r1.tcp_cache) THEN r1
              ELSE [r1 EXCEPT !.tcp_cache =
                       Some(Window_with_capacity(Shl(U16_MAX, wscale), tcp.sequence))]
        cache == r2.tcp_cache[1]
        \* segments with payload
        ap == Window_append(cache, tcp.sequence,
                            [i \in 1..tcp.len |-> ModAdd(tcp.sequence, i - 1)])
        f2 == IF Window_recv_next(ap.w) # Window_recv_next(cache) /\ IsSome(tcp.ts)
              THEN set_tcp_ts(f1, tcp.ts[1]) ELSE f1
        r3 == [r2 EXCEPT !.tcp_cache = Some(ap.w)]
        f3 == IF UnwrapOr(r3.tcp_sack_perm, FALSE)
              THEN set_tcp_sacks(f2, Window_filled(ap.w)) ELSE f2
        ack0 == send_tcp_ack_0(set_tcp_window(f3, advertised_window(ap.w, wscale)))
        \* bare ACKs
        is_sr == /\ UnwrapOr(r2.tcp_sack_perm, FALSE)
                 /\ IsSome(tcp.sack)
                 /\ Len(tcp.sack[1]) > 0
        rt == IF is_sr THEN retransmit_tcp_ack_without(f1, tcp.sack[1])
              ELSE retransmit_tcp_ack(f1)
        r4 == [r2 EXCEPT !.tcp_duplicate = Some(0), !.tcp_last_retransmission = Some(t)]
    IN IF ~is_exist THEN HRet(f, r, send_tcp_rst(f).out, TRUE, "none")
       ELSE IF tcp.len > 0
       THEN IF ~ap.ok THEN HRet(f1, r2, <<>>, FALSE, "none")
            ELSE IF IsSome(ap.payload)
            THEN [HRet(f3, r3, <<>>, TRUE, "none") EXCEPT
                     !.await = TRUE, !.payload = ap.payload[1], !.n = Len(ap.payload[1])]
            ELSE [handle_tcp_ack_tail(ack0.f, r3, tcp, read_closed, t, ack0.out)
                     EXCEPT !.n = 0]
       ELSE IF is_last_ack(f1, r2)
       THEN HRet(Forwarder_remove(f1), Redirector_remove(r2), <<>>, TRUE, "last_ack")
       ELSE IF is_fast_retransmit(r2, tcp, t)
       THEN IF ~rt.ok
            THEN [HRet(rt.f, r2, rt.out, FALSE, "none") EXCEPT !.fr = TRUE, !.fr_out = rt.out,
                                                               !.spin = rt.spin]
            ELSE [handle_tcp_ack_tail(rt.f, r4, tcp, read_closed, t, rt.out)
                     EXCEPT !.fr = TRUE, !.fr_out = rt.out]
       ELSE handle_tcp_ack_tail(f1, r2, tcp, read_closed, t, <<>>)

\* The Err branch of stream.send(payload).await with the acknowledgement
\* advanced past the payload before the ACK+RST.
handle_tcp_ack_sent_advanced(f, r, tcp, payload, sent_ok, read_closed, t) ==
    LET rst == send_tcp_ack_rst(add_tcp_acknowledgement(f, Len(payload)))
    IN HRet(Forwarder_remove(rst.f), Redirector_remove(r), rst.out, FALSE, "error")

\* handle_tcp_ack after stream.send(payload).await returned.
handle_tcp_ack_sent(f, r, tcp, payload, sent_ok, read_closed, t) ==
    LET wscale == UnwrapOr(r.tcp_wscale, 0)
        cache == r.tcp_cache[1]
        f1 == set_tcp_window(f, advertised_window(cache, wscale))
        f2 == add_tcp_acknowledgement(f1, Len(payload))
        r1 == [r EXCEPT !.tcp_recv_next =
                  Some(add_u32(UnwrapOr(r.tcp_recv_next, 0), Len(payload)))]
        ack0 == send_tcp_ack_0(f2)
        rst == send_tcp_ack_rst(f)
    IN IF sent_ok
       THEN [handle_tcp_ack_tail(ack0.f, r1, tcp, read_closed, t, ack0.out)
                EXCEPT !.n = Len(payload), !.payload = payload]
       ELSE HRet(Forwarder_remove(rst.f), Redirector_remove(r), rst.out, FALSE, "error")

\* handle_tcp_syn that connects whether or not the key has a stream.
handle_tcp_syn_always(f, r) ==
    [HRet(f, Redirector_remove(r), <<>>, TRUE, "none") EXCEPT !.await = TRUE]

\* handle_tcp_syn up to StreamWorker::connect(...).await: a SYN for a key that
\* has a stream is dropped.
handle_tcp_syn(f, r) ==
    IF IsSome(r.streams)
    THEN HRet(f, r, <<>>, TRUE, "none")
    ELSE [HRet(f, Redirector_remove(r), <<>>, TRUE, "none") EXCEPT !.await = TRUE]

\* handle_tcp_syn after connect returned Err(e), without setting the
\* acknowledgement from the SYN.
handle_tcp_syn_failed_stale_ack(f, r, tcp) ==
    LET sent == send_tcp_ack_rst(f)
    IN HRet(Forwarder_remove(sent.f), Redirector_remove(r), sent.out, FALSE, "none")

\* handle_tcp_syn after connect returned Err(e).
handle_tcp_syn_failed(f, r, tcp) ==
    LET r1 == Redirector_remove(r)
        f1 == set_tcp_acknowledgement(f,
                  IF tcp.sequence + 1 <= U32_MAX THEN tcp.sequence + 1 ELSE 0)
        sent == send_tcp_ack_rst(f1)
    IN HRet(Forwarder_remove(sent.f), r1, sent.out, FALSE, "none")

\* handle_tcp_rst without the call of Forwarder::remove.
handle_tcp_rst_redirector_only(f, r) ==
    IF IsSome(r.streams)
    THEN HRet(f, Redirector_remove(r), <<>>, TRUE, "rst")
    ELSE HRet(f, r, <<>>, TRUE, "none")

handle_tcp_rst(f, r) ==
    IF IsSome(r.streams)
    THEN HRet(Forwarder_remove(f), Redirector_remove(r), <<>>, TRUE, "rst")
    ELSE HRet(f, r, <<>>, TRUE, "none")

\* ------------------------------------------------------------- UDP NAT
\* The capacity of the UDP LRU (64 in the source), scaled.
PORT_COUNT == 2

\* The largest port number (u16::MAX in the source), scaled the way U32_MAX
\* scales the sequence space.
MaxPort == 4

\* lru::LruCache<u16, u16>: entries [k, v], most recently used first.
Lru_new == <<>>
Lru_len(l) == Len(l)
Lru_cap == PORT_COUNT
Lru_contains(l, k) == \E i \in 1..Len(l) : l[i].k = k
Lru_without(l, k) == SelectSeq(l, LAMBDA e : e.k # k)

\* put: the key becomes most recently used; a new key put into a full cache
\* drops the least recently used entry.
Lru_put(l, k, v) ==
    LET rest == Lru_without(l, k)
        kept == IF Len(rest) >= Lru_cap THEN SubSeq(rest, 1, Lru_cap - 1) ELSE rest
    IN <<[k |-> k, v |-> v]>> \o kept

\* get: a present key becomes most recently used.
Lru_get(l, k) ==
    IF Lru_contains(l, k)
    THEN SelectSeq(l, LAMBDA e : e.k = k) \o Lru_without(l, k)
    ELSE l

\* pop_lru on a cache that is not empty: the least recently used entry.
Lru_pop_lru(l) == [pair |-> l[Len(l)], lru |-> SubSeq(l, 1, Len(l) - 1)]

\* DatagramWorker::bind(tx, src_port, remote) on success, set_src_port, and the
\* worker's task ending.
DatagramWorkerNew(src_port) == [src_port |-> src_port, is_closed |-> FALSE]
DatagramWorker_set_src_port(w, src_port) == [w EXCEPT !.src_port = src_port]
DatagramWorker_close(w) == [w EXCEPT !.is_closed = TRUE]

\* The local ports the system hands to the sockets of this process.
LocalPorts == cfg.local_ports

\* The Redirector's UDP state after Redirector::new.  datagram_map has
\* u16::MAX entries: indices 0..u16::MAX-1.
NatNew ==
    [datagrams |-> [p \in LocalPorts |-> None],
     datagram_map |-> [s \in 0..(MaxPort - 1) |-> 0],
     udp_lru |-> Lru_new,
     panicked |-> FALSE]

\* Redirector::get_local_udp_port.  Indexing datagram_map out of range panics.
get_local_udp_port(r, src_port) ==
    IF src_port \notin DOMAIN r.datagram_map
    THEN [panic |-> TRUE, r |-> r, port |-> 0]
    ELSE LET local_port == r.datagram_map[src_port]
         IN IF local_port = 0
            THEN IF Lru_len(r.udp_lru) < Lru_cap
                 THEN [panic |-> FALSE, r |-> r, port |-> 0]
                 ELSE LET popped == Lru_pop_lru(r.udp_lru)
                          reused == popped.pair.k
                          prev_src_port == popped.pair.v
                          m1 == IF prev_src_port # 0
                                THEN [r.datagram_map EXCEPT ![prev_src_port] = 0]
                                ELSE r.datagram_map
                          m2 == [m1 EXCEPT ![src_port] = reused]
                      IN [panic |-> FALSE,
                          r |-> [r EXCEPT !.datagram_map = m2,
                                          !.udp_lru = Lru_put(popped.lru, reused, src_port)],
                          port |-> reused]
            ELSE [panic |-> FALSE,
                  r |-> [r EXCEPT !.udp_lru = Lru_get(@, local_port)],
                  port |-> local_port]

\* What handle_udp returns to the model: the state, whether it panicked,
\* whether it returned Ok, the worker the datagram went to (0: none) and whether
\* DatagramWorker::bind was called.
URet(r, panic, ok, port, bind_called) ==
    [r |-> r, panic |-> panic, ok |-> ok, port |-> port, bind_called |-> bind_called]

\* Redirector::handle_udp for a datagram from source port src; bind is what
\* DatagramWorker::bind would return: None for Err, Some(port) for Ok.
handle_udp(r, src, bind) ==
    LET g == get_local_udp_port(r, src)
        port == g.port
    IN IF g.panic
       THEN URet([r EXCEPT !.panicked = TRUE], TRUE, FALSE, 0, FALSE)
       ELSE IF port # 0 /\ ~IsSome(g.r.datagrams[port])
       THEN URet([g.r EXCEPT !.panicked = TRUE], TRUE, FALSE, 0, FALSE)
       ELSE LET is_create == IF port = 0 THEN TRUE
                             ELSE g.r.datagrams[port][1].is_closed
                is_set == IF port = 0 THEN FALSE
                          ELSE g.r.datagrams[port][1].src_port # src
            IN IF is_create
               THEN IF ~IsSome(bind)
                    THEN URet(g.r, FALSE, FALSE, 0, TRUE)
                    ELSE LET bind_port == bind[1]
                         IN URet([g.r EXCEPT
                                    !.datagrams[bind_port] = Some(DatagramWorkerNew(src)),
                                    !.datagram_map[src] = bind_port,
                                    !.udp_lru = Lru_put(@, bind_port, src)],
                                 FALSE, TRUE, bind_port, TRUE)
               ELSE IF is_set
               THEN URet([g.r EXCEPT !.datagrams[port] =
                            Some(DatagramWorker_set_src_port(@[1], src))],
                         FALSE, TRUE, port, FALSE)
               ELSE URet(g.r, FALSE, TRUE, port, FALSE)

\* ------------------------------------------------------------- IPv4 layer
\* udp.len() of the packet layer.
UDP_HEADER_SIZE == 8

\* The hosts the Forwarder sends to; the modelled flow belongs to FlowDst.
Dsts == {1, 2}
FlowDst == 1

\* What the capture sender is handed: an IPv4 datagram or fragment.  transport
\* tells which transport header follows the IPv4 header ("none" for a fragment
\* without one); lo and hi bound the slice payload[lo..hi] it carries.
Ipv4(dst, identification, more_fragment, fragment_offset, transport, lo, hi) ==
    [dst |-> dst, identification |-> identification, more_fragment |-> more_fragment,
     fragment_offset |-> fragment_offset, transport |-> transport, lo |-> lo, hi |-> hi]

\* ipv4_identification_map of a new Forwarder: no entry.
Ipv4IdentificationNew == [d \in Dsts |-> None]

\* Result of a send: the identification map, what reached the capture sender,
\* whether the method returned Ok, and "panic" or "loop" when it did neither.
IRet(m, out, ok, fault) == [m |-> m, out |-> out, ok |-> ok, fault |-> fault]

\* increase_ipv4_identification that stops at the highest value.
increase_ipv4_identification_saturating(m, ip_addr) ==
    LET entry == UnwrapOr(m[ip_addr], 0)
    IN [m EXCEPT ![ip_addr] = Some(IF entry + 1 <= U16_MAX THEN entry + 1 ELSE U16_MAX)]

increase_ipv4_identification(m, ip_addr) ==
    LET entry == UnwrapOr(m[ip_addr], 0)
    IN [m EXCEPT ![ip_addr] = Some(IF entry + 1 <= U16_MAX THEN entry + 1 ELSE 0)]

\* sent_ok: send_ethernet returned Ok (the frame was serialized and handed to
\* the sender).
send_ipv4_more_fragment(m, dst_ip_addr, fragment_offset, transport, lo, hi, sent_ok) ==
    LET ipv4 == Ipv4(dst_ip_addr, UnwrapOr(m[dst_ip_addr], 0), TRUE, fragment_offset,
                     transport, lo, hi)
    IN IF sent_ok THEN IRet(m, <<ipv4>>, TRUE, "none") ELSE IRet(m, <<>>, FALSE, "none")

send_ipv4_last_fragment(m, dst_ip_addr, fragment_offset, lo, hi, sent_ok) ==
    LET ipv4 == Ipv4(dst_ip_addr, UnwrapOr(m[dst_ip_addr], 0), FALSE, fragment_offset,
                     "none", lo, hi)
    IN IF sent_ok
       THEN IRet(increase_ipv4_identification(m, dst_ip_addr), <<ipv4>>, TRUE, "none")
       ELSE IRet(m, <<>>, FALSE, "none")

send_ipv4_with_transport(m, dst_ip_addr, transport, lo, hi, sent_ok) ==
    LET ipv4 == Ipv4(dst_ip_addr, UnwrapOr(m[dst_ip_addr], 0), FALSE, 0, transport, lo, hi)
    IN IF sent_ok
       THEN IRet(increase_ipv4_identification(m, dst_ip_addr), <<ipv4>>, TRUE, "none")
       ELSE IRet(m, <<>>, FALSE, "none")

send_udp_raw(m, dst, payload_len, sent_ok) ==
    send_ipv4_with_transport(m, dst, "udp", 0, payload_len, sent_ok)

\* The fragment length send_udp picks at offset n, without the step that leaves
\* 8 bytes for the last fragment.
fragment_length_no_reserve(mtu, size, n) ==
    LET length == Min(size - n, mtu - IPV4_HEADER_SIZE)
        remain == size - n - length
    IN IF remain > 0 THEN (length \div 8) * 8 ELSE length

\* The fragment length send_udp picks at offset n; below zero where the usize
\* subtraction underflows.
fragment_length(mtu, size, n) ==
    LET length == Min(size - n, mtu - IPV4_HEADER_SIZE)
        remain == size - n - length
        aligned == IF remain > 0 THEN (length \div 8) * 8 ELSE length
        remain_aligned == size - n - aligned
    IN IF remain_aligned > 0 /\ remain_aligned < 8 THEN aligned - 8 ELSE aligned

\* The loop of send_udp at offset n.  fail_at is the number of the send that
\* returns Err (0: none does); out is what was sent so far.
RECURSIVE send_udp_loop(_, _, _, _, _, _, _)
send_udp_loop(m, mtu, dst, payload_len, n, fail_at, out) ==
    LET size == UDP_HEADER_SIZE + payload_len
        length == fragment_length(mtu, size, n)
        remain == size - n - length
        sent_ok == Len(out) + 1 # fail_at
        fragment_offset == (n \div 8) % 65536
        lo == n - UDP_HEADER_SIZE
        hi == n + length - UDP_HEADER_SIZE
        sent == IF n = 0
                THEN IF remain > 0
                     THEN send_ipv4_more_fragment(m, dst, fragment_offset, "udp",
                                                  0, hi, sent_ok)
                     ELSE send_udp_raw(m, dst, payload_len, sent_ok)
                ELSE IF remain > 0
                     THEN send_ipv4_more_fragment(m, dst, fragment_offset, "none",
                                                  lo, hi, sent_ok)
                     ELSE send_ipv4_last_fragment(m, dst, fragment_offset, lo, hi, sent_ok)
    IN IF ~(n < size) THEN IRet(m, out, TRUE, "none")
       ELSE IF mtu < IPV4_HEADER_SIZE \/ length < 0 \/ hi < 0 \/ hi > payload_len
       THEN IRet(m, out, FALSE, "panic")
       ELSE IF ~sent.ok THEN IRet(sent.m, out \o sent.out, FALSE, "none")
       ELSE IF length = 0 THEN IRet(sent.m, out \o sent.out, FALSE, "loop")
       ELSE send_udp_loop(sent.m, mtu, dst, payload_len, n + length, fail_at,
                          out \o sent.out)

send_udp(m, mtu, dst, payload_len, fail_at) ==
    send_udp_loop(m, mtu, dst, payload_len, 0, fail_at, <<>>)

\* The Forwarder's send_tcp_* methods hand each segment of frames to
\* send_ipv4_with_transport, in order.
RECURSIVE send_tcp_frames(_, _, _)
send_tcp_frames(m, frames, out) ==
    IF frames = <<>> THEN IRet(m, out, TRUE, "none")
    ELSE LET sent == send_ipv4_with_transport(m, FlowDst, "tcp", 0,
                                              Len(Head(frames).payload), TRUE)
         IN send_tcp_frames(sent.m, Tail(frames), out \o sent.out)

\* ------------------------------------------------------------- state
VARIABLES
    fwd,      \* the Forwarder's per-flow state (behind the mutex)
    rdr,      \* the Redirector's per-flow state (receive loop only)
    pc,       \* where the receive loop is: "idle" or suspended at an await
    pending,  \* locals of the suspended handler
    worker,   \* the stream worker task: "none", "running", "eof"
    now,      \* the monotonic clock, ms
    ev,       \* observation of the last step
    gh,       \* history of the current flow
    nat,      \* the Redirector's UDP state (receive loop only)
    nev,      \* observation of the last UDP step
    ip4,      \* the Forwarder's mtu and ipv4_identification_map (behind the mutex)
    wire,     \* what the last step handed to the capture sender
    capture,  \* the loop of Redirector::open
    mutex,    \* who holds the Forwarder's mutex between steps
    calc      \* the fold of disjoint_u32_range over SACK blocks, and its inputs

vars == <<cfg, fwd, rdr, pc, pending, worker, now, ev, gh, nat, nev, ip4, wire, capture, mutex, calc>>

NevNone == [by |-> "none", src |-> 0, ok |-> FALSE, port |-> 0, bind_called |-> FALSE]

\* The loop of Redirector::open before its first turn: open says that it has
\* not returned, last what its last finished turn met.
CaptureNew == [open |-> TRUE, last |-> "none"]

\* The loop after a turn that met rx, returning on a TimedOut error too.
open_next_strict(c, rx) ==
    IF rx \in {"Other", "TimedOut"} THEN [open |-> FALSE, last |-> rx]
    ELSE [c EXCEPT !.last = rx]

\* The loop after a turn in which rx.next() returned the error rx ("TimedOut",
\* "Other"), a frame Indicator::from turns down ("unparsed"), or a frame whose
\* handler returned Ok ("handled") or Err ("handler_err").
open_next(c, rx) ==
    IF rx = "Other" THEN [open |-> FALSE, last |-> rx]
    ELSE [c EXCEPT !.last = rx]

\* The turn of the loop that called a transport handler ends, unless the
\* handler is suspended.  Scenarios that do not observe the loop keep last.
LoopAfter(suspended, ok) ==
    capture' = IF "capture" \in cfg.observe /\ ~suspended
               THEN open_next(capture, IF ok THEN "handled" ELSE "handler_err")
               ELSE capture

\* The Forwarder's mutex after a step of who ("loop", "worker"): every guard
\* taken in the step is dropped when the method returns, and stays when the
\* method spins or the handler suspends with the guard alive.
MutexAfter(who, held) == mutex' = IF held THEN who ELSE "free"

\* Nothing was handed to the capture sender.
WireNone ==
    [by |-> "none", dst |-> FlowDst, payload_len |-> 0, ok |-> TRUE, fault |-> "none",
     out |-> <<>>]

\* The IPv4 layer under a step whose Forwarder methods emitted the TCP segments
\* frames.  Scenarios that do not observe it leave the layer out.
Ipv4Sends(frames) ==
    IF "ipv4" \in cfg.observe
    THEN \E sent \in {send_tcp_frames(ip4.ipv4_identification_map, frames, <<>>)} :
            /\ ip4' = [ip4 EXCEPT !.ipv4_identification_map = sent.m]
            /\ wire' = IF frames = <<>> THEN WireNone
                       ELSE [WireNone EXCEPT !.by = "tcp", !.out = sent.out]
    ELSE UNCHANGED <<ip4, wire>>

\* stream.is_read_closed(): the worker task saw the end of the proxy's stream.
is_read_closed == worker = "eof"

\* What the last step did, as far as the properties look at it; every field
\* keeps its value below unless the step is of the kind named and the scenario
\* observes that kind (cfg.observe).
\*   syn, peer_seq, isn, frames      a handshake that was answered
\*   n, delivered, ack_before, rn_before, fin, frames
\*                                   a segment with payload that was handled to the
\*                                   end: the bytes the window returned
\*   fr, fr_ok, fr_out, fr_sacks, prev_fr_at
\*                                   the fast-retransmit branch was taken
\*   retx, by, exist, bare, dup, window, since
\*                                   the step took the fast-retransmit branch or
\*                                   emitted bytes that had been sent before
\*   torn, drained, window           the flow was torn down
\*   nfin                            FIN frames the step emitted
\*   by = "noflow", frames           an ACK or FIN segment was handled for a key
\*                                   without a flow
\*   by = "syn", exist, frames       a SYN was handled for a key with a flow
\*   by = "syn_failed", peer_seq, frames
\*                                   the connect for a SYN failed
\*   by = "send_failed", delivered, ack_before, rn_before, frames
\*                                   stream.send(payload) failed
EvNone ==
    [syn |-> FALSE, peer_seq |-> 0, isn |-> 0, frames |-> <<>>,
     n |-> -1, delivered |-> <<>>, ack_before |-> None, rn_before |-> None, fin |-> FALSE,
     fr |-> FALSE, fr_ok |-> TRUE, fr_out |-> <<>>, fr_sacks |-> <<>>, prev_fr_at |-> None,
     retx |-> 0, by |-> "none", exist |-> FALSE, bare |-> FALSE, dup |-> 0, window |-> 0,
     since |-> None,
     torn |-> "none", drained |-> FALSE, nfin |-> 0]

\* nfwd: bytes accepted by forward() since the worker was started; acked: bytes
\* the client acknowledged; sent_hi: highest byte put into a frame; fins: FIN
\* frames emitted since the flow was created, counted as 0, 1 or 2 for "two or
\* more"; closed: close() was called since the flow was created; fr_at: instant
\* of the last fast retransmit that emitted a frame; nrecv: bytes delivered to
\* the stream worker; wscale: the window scale of the client's SYN (0: none).
GhNew == [nfwd |-> 0, acked |-> 0, sent_hi |-> 0, fins |-> 0,
          closed |-> FALSE, fr_at |-> None, nrecv |-> 0, wscale |-> 0]

\* Number of frames of `frames` that carry a byte already sent before.
Retransmitted(frames, sent_hi) ==
    Cardinality({i \in 1..Len(frames) :
        \E j \in 1..Len(frames[i].payload) : frames[i].payload[j] <= sent_hi})

\* Highest forwarded byte carried by `frames`, at least sent_hi.
SentHi(frames, sent_hi) ==
    LET bytes == {sent_hi} \cup UNION {{frames[i].payload[j] : j \in 1..Len(frames[i].payload)}
                                        : i \in 1..Len(frames)}
    IN CHOOSE b \in bytes : \A b2 \in bytes : b2 <= b

Fins(frames) == Cardinality({i \in 1..Len(frames) : frames[i].kind = "FIN"})

\* The history after a step that emitted `frames`.
GhAfter(g, frames) ==
    [g EXCEPT !.sent_hi = SentHi(frames, g.sent_hi),
              !.fins = Min(g.fins + Fins(frames), 2)]

\* The observation of the FIN frames among the `frames` a step emitted.
EvFin(e, frames) ==
    IF "fin" \in cfg.observe THEN [e EXCEPT !.nfin = Fins(frames)] ELSE e

\* The observation of a worker callback that emitted `frames`.
EvWorker(by, frames) ==
    LET retx == Retransmitted(frames, gh.sent_hi)
    IN EvFin(IF retx > 0 /\ "retransmit" \in cfg.observe
             THEN [EvNone EXCEPT !.retx = retx, !.by = by, !.exist = IsSome(rdr.streams)]
             ELSE EvNone,
             frames)

\* The observation of a SYN handled for a key that has a flow.
EvSyn(h) ==
    IF "syn" \in cfg.observe /\ IsSome(rdr.streams)
    THEN [EvNone EXCEPT !.by = "syn", !.exist = TRUE, !.frames = h.out]
    ELSE EvNone

\* The state after construction, in scenario c.
InitWith(c) ==
    /\ cfg = c
    /\ fwd = ForwarderNew
    /\ rdr = RedirectorNew
    /\ pc = "idle"
    /\ pending = <<>>
    /\ worker = "none"
    /\ now = 0
    /\ ev = EvNone
    /\ gh = GhNew
    /\ nat = NatNew
    /\ nev = NevNone
    /\ \E mtu \in c.mtus :
          ip4 = [mtu |-> mtu, ipv4_identification_map |-> Ipv4IdentificationNew]
    /\ wire = WireNone
    /\ capture = CaptureNew
    /\ mutex = "free"
    /\ \E input \in c.disjoint :
          calc = [main |-> input.main, subs |-> input.subs, ranges |-> <<input.main>>,
                  k |-> 0]

\* ------------------------------------------------------------- receive loop: SYN
\* handle_tcp_syn up to the return of StreamWorker::connect(...).await.  A SYN
\* for a key that has a stream is dropped.
HandleTcpSyn ==
    /\ mutex = "free"
    /\ pc = "idle"
    /\ capture.open
    /\ \E s \in cfg.peer_isns, o \in cfg.options, connected \in BOOLEAN :
         LET tcp == [sequence |-> s, mss |-> o.mss, wscale |-> o.wscale,
                     sack_perm |-> o.sack_perm]
         IN \E h \in {handle_tcp_syn(fwd, rdr)} :
            /\ fwd' = h.f
            /\ rdr' = h.r
            /\ Ipv4Sends(h.out)
            /\ LoopAfter(h.await, h.ok)
            /\ MutexAfter("loop", h.spin \/ (h.await /\ h.locked))
            /\ gh' = IF h.await THEN GhNew ELSE GhAfter(gh, h.out)
            /\ ev' = EvSyn(h)
            /\ IF h.await
               THEN /\ pc' = IF connected THEN "syn_connected" ELSE "syn_failed"
                    /\ pending' = tcp
                    /\ worker' = IF connected THEN "running" ELSE "none"
               ELSE UNCHANGED <<pc, pending, worker>>
    /\ UNCHANGED <<cfg, nat, nev, now, calc>>

\* handle_tcp_syn after connect returned Ok(stream).
HandleTcpSynConnected ==
    /\ mutex = "free"
    /\ pc = "syn_connected"
    /\ capture.open
    /\ \E sequence \in cfg.local_isns :
         LET tcp == pending
             f0 == Forwarder_remove(fwd)
             f1 == set_tcp_sequence(f0, sequence)
             f2 == set_tcp_acknowledgement(f1,
                       IF tcp.sequence + 1 <= U32_MAX THEN tcp.sequence + 1 ELSE 0)
             r1 == [rdr EXCEPT
                      !.tcp_recv_next = Some(IF tcp.sequence + 1 <= U32_MAX
                                             THEN tcp.sequence + 1 ELSE U32_MAX),
                      !.tcp_acknowledgement = Some(IF sequence >= 1 THEN sequence - 1
                                                   ELSE U32_MAX)]
             f3 == IF IsSome(tcp.mss) THEN set_tcp_send_mss(f2, tcp.mss[1]) ELSE f2
             wscale == tcp.wscale
             f4 == IF IsSome(wscale) THEN set_tcp_wscale(f3, wscale[1]) ELSE f3
             sack_perm == tcp.sack_perm
             recv_wscale == IF IsSome(wscale) THEN Some(Min(wscale[1], MAX_RECV_WSCALE))
                            ELSE None
             sent == send_tcp_ack_syn(f4, None, recv_wscale, sack_perm)
             r2 == IF IsSome(recv_wscale) THEN [r1 EXCEPT !.tcp_wscale = recv_wscale] ELSE r1
             r3 == IF sack_perm THEN [r2 EXCEPT !.tcp_sack_perm = Some(TRUE)] ELSE r2
         IN /\ fwd' = sent.f
            /\ rdr' = [r3 EXCEPT !.streams = Some(StreamWorkerNew)]
            /\ Ipv4Sends(sent.out)
            /\ LoopAfter(FALSE, sent.ok)
            /\ MutexAfter("loop", sent.spin)
            /\ gh' = [GhAfter(gh, sent.out) EXCEPT !.fins = 0, !.closed = FALSE,
                                                   !.wscale = UnwrapOr(tcp.wscale, 0)]
            /\ ev' = IF "handshake" \in cfg.observe
                     THEN [EvNone EXCEPT !.syn = TRUE, !.peer_seq = tcp.sequence,
                                         !.isn = sequence, !.frames = sent.out]
                     ELSE EvNone
    /\ pc' = "idle"
    /\ pending' = <<>>
    /\ UNCHANGED <<cfg, nat, nev, worker, now, calc>>

\* handle_tcp_syn after connect returned Err(e).
HandleTcpSynFailed ==
    /\ mutex = "free"
    /\ pc = "syn_failed"
    /\ capture.open
    /\ \E h \in {handle_tcp_syn_failed(fwd, rdr, pending)} :
          /\ rdr' = h.r
          /\ fwd' = h.f
          /\ Ipv4Sends(h.out)
          /\ LoopAfter(FALSE, h.ok)
          /\ MutexAfter("loop", h.spin \/ (h.await /\ h.locked))
          /\ gh' = GhAfter(gh, h.out)
          /\ ev' = IF "failure" \in cfg.observe
                   THEN [EvNone EXCEPT !.by = "syn_failed", !.peer_seq = pending.sequence,
                                       !.frames = h.out]
                   ELSE EvNone
    /\ pc' = "idle"
    /\ pending' = <<>>
    /\ UNCHANGED <<cfg, nat, nev, worker, now, calc>>

\* ------------------------------------------------------------- stream worker
\* The worker task read n bytes from the proxy and calls forward().
WorkerForward ==
    /\ mutex = "free"
    /\ worker = "running"
    /\ \E n \in 1..(cfg.max_fwd - gh.nfwd) :
       \E res \in {ForwardStream_forward(fwd, [i \in 1..n |-> gh.nfwd + i], now)} :
            /\ fwd' = res.f
            /\ Ipv4Sends(res.out)
            /\ MutexAfter("worker", res.spin)
            /\ gh' = [GhAfter(gh, res.out) EXCEPT !.nfwd = gh.nfwd + n]
            /\ ev' = EvWorker("forward", res.out)
    /\ UNCHANGED <<cfg, nat, nev, capture, rdr, pc, pending, worker, now, calc>>

\* The worker task's read timed out and it calls tick().
WorkerTick ==
    /\ mutex = "free"
    /\ worker \in {"running", "eof"}
    /\ \E res \in {ForwardStream_tick(fwd, now)} :
          /\ fwd' = res.f
          /\ Ipv4Sends(res.out)
          /\ MutexAfter("worker", res.spin)
          /\ gh' = GhAfter(gh, res.out)
          /\ ev' = EvWorker("tick", res.out)
    /\ UNCHANGED <<cfg, nat, nev, capture, rdr, pc, pending, worker, now, calc>>

\* The worker task read the end of the proxy's stream and calls close().
WorkerClose ==
    /\ mutex = "free"
    /\ worker = "running"
    /\ \E res \in {ForwardStream_close(fwd, now)} :
          /\ fwd' = res.f
          /\ Ipv4Sends(res.out)
          /\ MutexAfter("worker", res.spin)
          /\ gh' = [GhAfter(gh, res.out) EXCEPT !.closed = IsSome(rdr.streams)]
          /\ ev' = EvWorker("close", res.out)
    /\ worker' = "eof"
    /\ UNCHANGED <<cfg, nat, nev, capture, rdr, pc, pending, now, calc>>

AdvanceTime ==
    /\ \E d \in cfg.steps :
         /\ now + d <= cfg.max_time
         /\ now' = now + d
    /\ ev' = EvNone
    /\ Ipv4Sends(<<>>)
    /\ UNCHANGED <<cfg, nat, nev, capture, fwd, rdr, pc, pending, worker, gh, mutex, calc>>

\* ------------------------------------------------------------- receive loop: ACK, FIN, RST
\* What the client puts into a segment.  Sequence numbers are what the
\* Redirector expects plus an offset of the scenario; acknowledgement numbers
\* are the stored one (a duplicate), one before it (stale), any edge inside the
\* send-side cache, the Forwarder's sequence and, once a FIN was emitted, one
\* past it (the acknowledgement of the FIN).
PeerSeqs ==
    LET rn == UnwrapOr(rdr.tcp_recv_next, 0) IN {ModAdd(rn, d) : d \in cfg.seq_offsets}
PeerAcks ==
    LET stored == UnwrapOr(rdr.tcp_acknowledgement, 0)
        sequence == UnwrapOr(fwd.tcp_sequence, 0)
    IN {stored, ModSub(stored, 1), sequence}
       \cup (IF gh.fins > 0 THEN {ModAdd(sequence, 1)} ELSE {})
       \cup (IF IsSome(fwd.tcp_cache)
             THEN {ModAdd(fwd.tcp_cache[1].sequence, k) : k \in 1..Queue_len(fwd.tcp_cache[1])}
             ELSE {})
\* SACK options: none, every well-formed block inside the send-side cache, and
\* a block whose right edge lies before the cache.
PeerSacks ==
    IF cfg.sacks /\ IsSome(fwd.tcp_cache) /\ Queue_len(fwd.tcp_cache[1]) > 0
    THEN LET left == fwd.tcp_cache[1].sequence
             n == Queue_len(fwd.tcp_cache[1])
         IN {None}
            \cup UNION {{Some(<<<<ModAdd(left, i), ModAdd(left, j)>>>>) : j \in (i + 1)..n}
                        : i \in 0..(n - 1)}
            \cup {Some(<<<<ModAdd(left, 1), ModSub(left, 1)>>>>)}
    ELSE {None}
\* The client sends its FIN to a flow once.
PeerFinished == IsSome(rdr.streams) /\ rdr.streams[1].is_write_closed
PeerFins == IF PeerFinished THEN {FALSE} ELSE cfg.fin_flags

\* The observation of a receive-loop handler that returned h.
EvHandler(h, tcp, drained) ==
    LET retx == Retransmitted(h.out, gh.sent_hi)
        e1 == IF (h.fr \/ retx > 0) /\ "retransmit" \in cfg.observe
              THEN [EvNone EXCEPT
                      !.retx = retx, !.by = "ack",
                      !.exist = IsSome(rdr.streams),
                      !.bare = (tcp.len = 0),
                      !.dup = UnwrapOr(update_tcp_acknowledgement(rdr, tcp).tcp_duplicate, 0),
                      !.window = tcp.window,
                      !.since = rdr.tcp_last_retransmission]
              ELSE EvNone
        e2 == IF h.fr /\ "retransmit" \in cfg.observe
              THEN [e1 EXCEPT
                      !.fr = TRUE, !.fr_ok = h.ok, !.fr_out = h.fr_out,
                      !.fr_sacks = IF IsSome(tcp.sack) /\ UnwrapOr(rdr.tcp_sack_perm, FALSE)
                                   THEN tcp.sack[1] ELSE <<>>,
                      !.prev_fr_at = gh.fr_at]
              ELSE e1
    IN EvFin(IF h.torn # "none" /\ "teardown" \in cfg.observe
             THEN [e2 EXCEPT !.torn = h.torn, !.drained = drained, !.window = tcp.window]
             ELSE e2,
             h.out)

\* The observation of a segment handled while the key has no flow.
EvStateless(e, h) ==
    IF "stateless" \in cfg.observe /\ ~IsSome(rdr.streams)
    THEN [e EXCEPT !.by = "noflow", !.frames = h.out]
    ELSE e

\* The observation of the window field of an ACK handled on a flow.
EvWindow(e, tcp) ==
    IF "window" \in cfg.observe /\ IsSome(rdr.streams)
    THEN [e EXCEPT !.by = "ack", !.exist = TRUE, !.window = tcp.window]
    ELSE e

\* handle_tcp_ack for one client segment with the ACK flag.
HandleTcpAck ==
    /\ mutex = "free"
    /\ pc = "idle"
    /\ capture.open
    /\ \E sq \in PeerSeqs, a \in PeerAcks, w \in cfg.peer_windows, l \in cfg.seg_lens,
          fn \in PeerFins, sk \in PeerSacks, ts \in cfg.peer_ts :
         /\ (l > 0 \/ fn) => sk = None
         /\ (l = 0 /\ ~fn) => ts = None
         /\ LET tcp == [sequence |-> sq, acknowledgement |-> a, window |-> w, len |-> l,
                        fin |-> fn, sack |-> sk, ts |-> ts]
                is_exist == IsSome(rdr.streams)
                after == invalidate_cache_to(fwd, a)
                invalidated == get_cache_size(fwd) - get_cache_size(after)
                drained == get_cache_size(after) = 0
                               /\ UnwrapOr(fwd.tcp_queue, <<>>) = <<>>
            IN \E h \in {handle_tcp_ack(fwd, rdr, tcp, is_read_closed, now)} :
               /\ UnwrapOr(h.r.tcp_duplicate, 0) <= MaxDup
               /\ fwd' = h.f
               /\ rdr' = h.r
               /\ pc' = IF h.await THEN "ack_send" ELSE "idle"
               /\ pending' = IF h.await
                             THEN [sequence |-> sq, len |-> l, fin |-> fn, ts |-> ts,
                                   payload |-> h.payload]
                             ELSE <<>>
               /\ worker' = IF h.torn # "none" THEN "none" ELSE worker
               /\ Ipv4Sends(h.out)
               /\ LoopAfter(h.await, h.ok)
               /\ MutexAfter("loop", h.spin \/ (h.await /\ h.locked))
               /\ gh' = [GhAfter(gh, h.out) EXCEPT
                           !.acked = IF is_exist THEN gh.acked + invalidated ELSE gh.acked,
                           !.nrecv = IF h.await THEN gh.nrecv + h.n ELSE gh.nrecv,
                           !.fr_at = IF h.fr /\ Retransmitted(h.fr_out, gh.sent_hi) > 0
                                        /\ "retransmit" \in cfg.observe
                                     THEN Some(now) ELSE gh.fr_at]
               /\ gh'.nrecv <= cfg.max_recv
               /\ ev' = IF h.n = 0 /\ "delivery" \in cfg.observe
                        THEN [EvHandler(h, tcp, drained) EXCEPT
                                !.n = 0, !.fin = fn, !.frames = h.out,
                                !.ack_before = fwd.tcp_acknowledgement,
                                !.rn_before = rdr.tcp_recv_next]
                        ELSE EvStateless(EvWindow(EvHandler(h, tcp, drained), tcp), h)
    /\ UNCHANGED <<cfg, nat, nev, now, calc>>

\* handle_tcp_ack resumed: stream.send(payload).await returned Ok or Err.
HandleTcpAckSent ==
    /\ mutex = "free"
    /\ pc = "ack_send"
    /\ capture.open
    /\ \E sent_ok \in BOOLEAN :
         LET tcp == [sequence |-> pending.sequence, acknowledgement |-> 0, window |-> 0,
                     len |-> pending.len, fin |-> pending.fin, sack |-> None,
                     ts |-> pending.ts]
             drained == get_cache_size(fwd) = 0 /\ UnwrapOr(fwd.tcp_queue, <<>>) = <<>>
         IN \E h \in {handle_tcp_ack_sent(fwd, rdr, tcp, pending.payload, sent_ok,
                                          is_read_closed, now)} :
            /\ fwd' = h.f
            /\ rdr' = h.r
            /\ worker' = IF h.torn # "none" THEN "none" ELSE worker
            /\ Ipv4Sends(h.out)
            /\ LoopAfter(FALSE, h.ok)
            /\ MutexAfter("loop", h.spin \/ (h.await /\ h.locked))
            /\ gh' = GhAfter(gh, h.out)
            /\ ev' = IF sent_ok /\ "delivery" \in cfg.observe
                     THEN [EvHandler(h, tcp, drained) EXCEPT
                             !.n = h.n, !.fin = pending.fin, !.frames = h.out,
                             !.delivered = pending.payload,
                             !.ack_before = fwd.tcp_acknowledgement,
                             !.rn_before = rdr.tcp_recv_next]
                     ELSE IF ~sent_ok /\ "failure" \in cfg.observe
                     THEN [EvHandler(h, tcp, drained) EXCEPT
                             !.by = "send_failed", !.frames = h.out,
                             !.delivered = pending.payload,
                             !.ack_before = fwd.tcp_acknowledgement,
                             !.rn_before = rdr.tcp_recv_next]
                     ELSE EvHandler(h, tcp, drained)
    /\ pc' = "idle"
    /\ pending' = <<>>
    /\ UNCHANGED <<cfg, nat, nev, now, calc>>

\* handle_tcp_fin for a pure FIN (no ACK flag).
HandleTcpFin ==
    /\ mutex = "free"
    /\ pc = "idle"
    /\ capture.open
    /\ ~PeerFinished
    /\ \E sq \in PeerSeqs, l \in cfg.seg_lens, ts \in cfg.peer_ts :
         LET tcp == [sequence |-> sq, acknowledgement |-> 0, window |-> 0, len |-> l,
                     fin |-> TRUE, sack |-> None, ts |-> ts]
             drained == get_cache_size(fwd) = 0 /\ UnwrapOr(fwd.tcp_queue, <<>>) = <<>>
         IN \E h \in {handle_tcp_fin(fwd, rdr, tcp, is_read_closed)} :
            /\ fwd' = h.f
            /\ rdr' = h.r
            /\ worker' = IF h.torn # "none" THEN "none" ELSE worker
            /\ Ipv4Sends(h.out)
            /\ LoopAfter(FALSE, h.ok)
            /\ MutexAfter("loop", h.spin \/ (h.await /\ h.locked))
            /\ gh' = GhAfter(gh, h.out)
            /\ ev' = EvStateless(EvHandler(h, tcp, drained), h)
    /\ UNCHANGED <<cfg, nat, nev, pc, pending, now, calc>>

\* handle_tcp_rst.
HandleTcpRst ==
    /\ mutex = "free"
    /\ pc = "idle"
    /\ capture.open
    /\ \E h \in {handle_tcp_rst(fwd, rdr)} :
          /\ fwd' = h.f
          /\ rdr' = h.r
          /\ worker' = IF h.torn # "none" THEN "none" ELSE worker
          /\ ev' = IF h.torn # "none" /\ "teardown" \in cfg.observe
                   THEN [EvNone EXCEPT !.torn = h.torn] ELSE EvNone
          /\ Ipv4Sends(h.out)
          /\ LoopAfter(FALSE, h.ok)
          /\ MutexAfter("loop", h.spin \/ (h.await /\ h.locked))
    /\ UNCHANGED <<cfg, nat, nev, pc, pending, now, gh, calc>>

Next ==
    \/ HandleTcpSyn
    \/ HandleTcpSynConnected
    \/ HandleTcpSynFailed
    \/ HandleTcpAck
    \/ HandleTcpAckSent
    \/ HandleTcpFin
    \/ HandleTcpRst
    \/ WorkerForward
    \/ WorkerTick
    \/ WorkerClose
    \/ AdvanceTime

\* ------------------------------------------------------------- receive loop: UDP
\* The ports the system can hand to a new socket: those no live worker of this
\* process holds.
FreePorts ==
    {p \in LocalPorts : ~IsSome(nat.datagrams[p]) \/ nat.datagrams[p][1].is_closed}

\* handle_udp for one datagram from one of the scenario's source ports.
HandleUdp ==
    /\ pc = "idle"
    /\ capture.open
    /\ ~nat.panicked
    /\ \E src \in cfg.src_ports, bind \in {None} \cup {Some(p) : p \in FreePorts} :
         \E h \in {handle_udp(nat, src, bind)} :
            /\ nat' = h.r
            /\ nev' = [by |-> "udp", src |-> src, ok |-> h.ok, port |-> h.port,
                       bind_called |-> h.bind_called]
            /\ LoopAfter(FALSE, h.ok)
    /\ UNCHANGED <<cfg, fwd, rdr, pc, pending, worker, now, ev, gh, ip4, wire, mutex, calc>>

\* A datagram worker's task ends; its handle stays in datagrams.
DatagramWorkerClose ==
    /\ ~nat.panicked
    /\ \E p \in LocalPorts :
         /\ IsSome(nat.datagrams[p])
         /\ ~nat.datagrams[p][1].is_closed
         /\ nat' = [nat EXCEPT !.datagrams[p] = Some(DatagramWorker_close(@[1]))]
    /\ nev' = NevNone
    /\ UNCHANGED <<cfg, fwd, rdr, pc, pending, worker, now, ev, gh, ip4, wire, capture, mutex, calc>>

NextUdp ==
    \/ HandleUdp
    \/ DatagramWorkerClose

\* ------------------------------------------------------------- datagram worker
\* A datagram worker task got a datagram of payload_len bytes from the proxy
\* and calls forward(), which is send_udp.
DatagramForward ==
    /\ mutex = "free"
    /\ \E dst \in Dsts, payload_len \in cfg.udp_lens, fail_at \in cfg.fails :
         \E sent \in {send_udp(ip4.ipv4_identification_map, ip4.mtu, dst, payload_len,
                               fail_at)} :
            /\ fail_at = 0 \/ ~sent.ok
            /\ ip4' = [ip4 EXCEPT !.ipv4_identification_map = sent.m]
            /\ wire' = [by |-> "udp", dst |-> dst, payload_len |-> payload_len,
                        ok |-> sent.ok, fault |-> sent.fault, out |-> sent.out]
    /\ UNCHANGED <<cfg, fwd, rdr, pc, pending, worker, now, ev, gh, nat, nev, capture, mutex, calc>>

\* ------------------------------------------------------------- receive loop: open
\* rx.next() returned a TimedOut error: the loop sleeps and goes on.
RxTimedOut ==
    /\ pc = "idle"
    /\ capture.open
    /\ capture' = open_next(capture, "TimedOut")
    /\ UNCHANGED <<cfg, fwd, rdr, pc, pending, worker, now, ev, gh, nat, nev, ip4, wire, mutex, calc>>

\* rx.next() returned an error of another kind.
RxError ==
    /\ pc = "idle"
    /\ capture.open
    /\ capture' = open_next(capture, "Other")
    /\ UNCHANGED <<cfg, fwd, rdr, pc, pending, worker, now, ev, gh, nat, nev, ip4, wire, mutex, calc>>

\* rx.next() returned a frame for which Indicator::from gives None.
RxUnparsed ==
    /\ pc = "idle"
    /\ capture.open
    /\ capture' = open_next(capture, "unparsed")
    /\ UNCHANGED <<cfg, fwd, rdr, pc, pending, worker, now, ev, gh, nat, nev, ip4, wire, mutex, calc>>

\* handle_arp: an ARP frame that needs no reply, or a request whose reply is
\* sent or fails to be sent.  Scenarios that observe the frames tell the
\* request whose reply (send_arp_reply) reached the capture sender.
HandleArp ==
    /\ mutex = "free"
    /\ pc = "idle"
    /\ capture.open
    /\ \E ok \in BOOLEAN, request \in IF "frames" \in cfg.observe THEN BOOLEAN ELSE {FALSE} :
         /\ capture' = open_next(capture, IF ok THEN "handled" ELSE "handler_err")
         /\ wire' = IF "frames" \in cfg.observe
                    THEN [WireNone EXCEPT !.by = IF request /\ ok THEN "arp" ELSE "none"]
                    ELSE wire
    /\ UNCHANGED <<cfg, fwd, rdr, pc, pending, worker, now, ev, gh, nat, nev, ip4, mutex, calc>>

NextCapture ==
    \/ Next
    \/ NextUdp
    \/ RxTimedOut
    \/ RxError
    \/ RxUnparsed
    \/ HandleArp

NextIpv4 ==
    \/ Next
    \/ DatagramForward

NextFragment == DatagramForward

\* ------------------------------------------------------------- scenarios
\* Bytes the worker forwards and bytes the stream worker gets delivered in one
\* flow.
MaxFwd == 1
MaxRecv == 1

OptionsPlain == [mss |-> None, wscale |-> None, sack_perm |-> FALSE]
OptionsFull == [mss |-> Some(2), wscale |-> Some(1), sack_perm |-> TRUE]

\* The life of a flow: handshake with SACK permitted, a byte each way, repeated
\* acknowledgements with an open or a closed window, close from either side.
MainScenario ==
    [u16_max |-> 65535,
     src_ports |-> {0, 1, 2, MaxPort}, local_ports |-> {1, 2, 3},
     mtus |-> {Mtu}, udp_lens |-> {0}, fails |-> {0},
     disjoint |-> {[main |-> <<0, 0>>, subs |-> <<>>]},
     peer_isns |-> {2}, local_isns |-> {5}, options |-> {OptionsFull},
     seg_lens |-> {0, 1}, seq_offsets |-> {0}, fin_flags |-> BOOLEAN,
     peer_windows |-> {0, 2}, peer_ts |-> {None}, sacks |-> TRUE,
     steps |-> {RETRANSMISSION_COOL_DOWN}, max_time |-> RETRANSMISSION_COOL_DOWN,
     max_fwd |-> MaxFwd, max_recv |-> MaxRecv,
     observe |-> {"retransmit", "teardown"}]

\* Selective retransmission: the same client with one more byte in flight.
RetransmitScenario ==
    [MainScenario EXCEPT !.max_fwd = MaxFwd + 1, !.fin_flags = {FALSE},
                         !.observe = {"retransmit"}]

\* Sequence numbers at the end of the sequence space, and segments that arrive
\* ahead of what the Redirector expects.
WrapScenario ==
    [u16_max |-> 65535,
     src_ports |-> {0, 1, 2, MaxPort}, local_ports |-> {1, 2, 3},
     mtus |-> {Mtu}, udp_lens |-> {0}, fails |-> {0},
     disjoint |-> {[main |-> <<0, 0>>, subs |-> <<>>]},
     peer_isns |-> {U32_MAX - 1, U32_MAX}, local_isns |-> {U32_MAX},
     options |-> {OptionsPlain},
     seg_lens |-> {0, 1}, seq_offsets |-> {0, 1}, fin_flags |-> {FALSE},
     peer_windows |-> {2}, peer_ts |-> {None}, sacks |-> FALSE,
     steps |-> {RETRANSMISSION_COOL_DOWN}, max_time |-> RETRANSMISSION_COOL_DOWN,
     max_fwd |-> MaxFwd, max_recv |-> MaxRecv + 1,
     observe |-> {"handshake", "delivery", "failure"}]

\* The 16-bit fields scaled to 0..3: a send window (3 << 1) and a queue that
\* both exceed what one 16-bit length can hold.
MaxQueue == 4
DrainScenario ==
    [u16_max |-> 3,
     src_ports |-> {0, 1, 2, MaxPort}, local_ports |-> {1, 2, 3},
     mtus |-> {Mtu}, udp_lens |-> {0}, fails |-> {0},
     disjoint |-> {[main |-> <<0, 0>>, subs |-> <<>>]},
     peer_isns |-> {2}, local_isns |-> {5}, options |-> {OptionsFull},
     seg_lens |-> {0, 1}, seq_offsets |-> {0}, fin_flags |-> {FALSE},
     peer_windows |-> {0, 3}, peer_ts |-> {None}, sacks |-> FALSE,
     steps |-> {RETRANSMISSION_COOL_DOWN}, max_time |-> RETRANSMISSION_COOL_DOWN,
     max_fwd |-> MaxQueue, max_recv |-> MaxRecv,
     observe |-> {}]

\* Clients that announce no window scale, or one above MAX_RECV_WSCALE.
OptionsWide == [mss |-> None, wscale |-> Some(MAX_RECV_WSCALE + 1), sack_perm |-> FALSE]
WindowScenario ==
    [MainScenario EXCEPT !.options = {OptionsPlain, OptionsWide}, !.sacks = FALSE,
                         !.fin_flags = {FALSE}, !.observe = {"window"}]

\* Data sent across the end of the sequence space in segments of the client's
\* MSS: the initial sequence is chosen MaxSegments bytes before the wrap.
MaxSegments == 2
SegmentScenario ==
    [MainScenario EXCEPT !.local_isns = {U32_MAX - MaxSegments},
                         !.max_fwd = MaxSegments + 1, !.sacks = FALSE,
                         !.fin_flags = {FALSE}, !.observe = {}]

\* The life of a flow, observed for the FIN segments it emits.
FinScenario == [MainScenario EXCEPT !.sacks = FALSE, !.observe = {"fin"}]

\* The life of a flow, observed for the segments that arrive before it exists
\* and after it is gone.
StatelessScenario ==
    [MainScenario EXCEPT !.sacks = FALSE, !.observe = {"stateless", "syn"}]

Spec == InitWith(MainScenario) /\ [][Next]_vars
SpecFin == InitWith(FinScenario) /\ [][Next]_vars
SpecSegment == InitWith(SegmentScenario) /\ [][Next]_vars
SpecWindow == InitWith(WindowScenario) /\ [][Next]_vars
SpecDrain == InitWith(DrainScenario) /\ [][Next]_vars
SpecRetransmit == InitWith(RetransmitScenario) /\ [][Next]_vars
SpecWrap == InitWith(WrapScenario) /\ [][Next]_vars
SpecStateless == InitWith(StatelessScenario) /\ [][Next]_vars

\* The UDP NAT: datagrams from the lowest and the highest source port and two
\* between, workers that end.
UdpScenario == [MainScenario EXCEPT !.observe = {}]

\* One more source port than the LRU holds, none of them port 0.
RebindScenario == [UdpScenario EXCEPT !.src_ports = {1, 2, 3}]
SpecUdp == InitWith(UdpScenario) /\ [][NextUdp]_vars
SpecRebind == InitWith(RebindScenario) /\ [][NextUdp]_vars

\* The IPv4 layer under a flow that carries a byte each way and under datagrams
\* that fit the MTU or need three fragments, with a send that fails; the
\* identification scaled to 0..3.
Ipv4Scenario ==
    [MainScenario EXCEPT !.u16_max = 3, !.options = {OptionsPlain}, !.sacks = FALSE,
                         !.seg_lens = {1}, !.peer_windows = {2}, !.fin_flags = {FALSE},
                         !.udp_lens = {0, 2 * Mtu}, !.fails = {0, 2},
                         !.observe = {"ipv4"}]
SpecIpv4 == InitWith(Ipv4Scenario) /\ [][NextIpv4]_vars

\* The loop of Redirector::open over a flow, datagrams from one source port,
\* ARP frames, frames that do not parse and errors of the receiver.
CaptureScenario ==
    [MainScenario EXCEPT !.options = {OptionsPlain}, !.sacks = FALSE, !.seg_lens = {1},
                         !.peer_windows = {2}, !.fin_flags = {FALSE},
                         !.src_ports = {1}, !.local_ports = {1},
                         !.observe = {"capture"}]
SpecCapture == InitWith(CaptureScenario) /\ [][NextCapture]_vars

\* Clients that announce an MSS option of 0, beside those that announce none.
OptionsZeroMss == [mss |-> Some(0), wscale |-> None, sack_perm |-> FALSE]
MssScenario ==
    [MainScenario EXCEPT !.options = {OptionsPlain, OptionsZeroMss}, !.sacks = FALSE,
                         !.fin_flags = {FALSE}, !.observe = {}]
SpecMss == InitWith(MssScenario) /\ [][Next]_vars
\* The same under a scheduler that lets the receive loop and the worker tasks
\* run whenever they can.
SpecMssLive == SpecMss /\ WF_vars(Next)

\* send_udp for every payload length up to MaxPayload under every MTU from 36
\* to MaxMtu.
MaxPayload == 40
MaxMtu == 45
FragmentScenario ==
    [DrainScenario EXCEPT !.mtus = 36..MaxMtu, !.udp_lens = 0..MaxPayload,
                          !.fails = {0, 2}, !.observe = {"ipv4"}]
SpecFragment == InitWith(FragmentScenario) /\ [][NextFragment]_vars

\* ------------------------------------------------------------- properties
\* The flow exists and the receive loop is between two segments.
LiveFlow == IsSome(rdr.streams) /\ pc = "idle"

\* C1: between its creation and its teardown a flow emits at most one FIN
\* segment toward the client, whatever the worker calls and the client sends.
C1_AtMostOneFin == IsSome(rdr.streams) => gh.fins <= 1

\* Sequence number x lies in the SACK block b = <<left, right>>.
InBlock(x, b) == ModSub(x, b[1]) < ModSub(b[2], b[1])

\* The sequence numbers of the payload bytes of `frames`.
SequencesOf(frames) ==
    UNION {{ModAdd(frames[i].sequence, j - 1) : j \in 1..Len(frames[i].payload)}
           : i \in 1..Len(frames)}

\* C2: a selective retransmission emits no byte that one of the client's SACK
\* blocks covers: a SACKed tail is not resent, a wholly SACKed cache emits
\* nothing.
C2_SelectiveRetransmitSkipsSacked ==
    (ev.fr /\ ev.fr_sacks # <<>>) =>
        \A x \in SequencesOf(ev.fr_out) :
            \A k \in 1..Len(ev.fr_sacks) : ~InBlock(x, ev.fr_sacks[k])

\* C3: in a live flow the cache followed by the queue holds exactly the bytes
\* forward() accepted and the client has not acknowledged, in order.
C3_UnackedBytesHeld ==
    IsSome(rdr.streams) =>
        (IF IsSome(fwd.tcp_cache) THEN fwd.tcp_cache[1].data ELSE <<>>)
            \o UnwrapOr(fwd.tcp_queue, <<>>)
        = [i \in 1..(gh.nfwd - gh.acked) |-> gh.acked + i]

\* C4: while the client has not sent its FIN, the Redirector's recv_next is the
\* reassembly window's recv_next, and the bytes delivered to the stream worker
\* start at the recv_next the Redirector had before the delivery.
C4_RecvNextIsWindowRecvNext ==
    /\ (LiveFlow /\ IsSome(rdr.tcp_cache) /\ ~rdr.streams[1].is_write_closed) =>
           rdr.tcp_recv_next = Some(Window_recv_next(rdr.tcp_cache[1]))
    /\ ev.n > 0 =>
           \A k \in 1..Len(ev.delivered) :
               ev.delivered[k] = ModAdd(ev.rn_before[1], k - 1)

\* The bare ACK frames among `frames`.
BareAcks(frames) ==
    {i \in 1..Len(frames) : frames[i].kind = "ACK" /\ frames[i].payload = <<>>}

\* C5: a segment with payload from which the window returned N bytes (N = 0:
\* none) leaves the Forwarder's acknowledgement and the Redirector's recv_next
\* advanced by N modulo 2^32, and emits one bare ACK carrying that
\* acknowledgement.
C5_DeliveryAdvancesByN ==
    (ev.n >= 0 /\ ~ev.fin) =>
        /\ fwd.tcp_acknowledgement = Some(ModAdd(ev.ack_before[1], ev.n))
        /\ rdr.tcp_recv_next = Some(ModAdd(ev.rn_before[1], ev.n))
        /\ Cardinality(BareAcks(ev.frames)) = 1
        /\ \A i \in BareAcks(ev.frames) :
               Some(ev.frames[i].acknowledgement) = fwd.tcp_acknowledgement

\* C6: the answer to a SYN with sequence s, with initial sequence R chosen, is
\* a SYN+ACK with seq = R and ack = s + 1, and leaves Forwarder sequence R + 1,
\* Forwarder acknowledgement s + 1 and Redirector recv_next s + 1, all modulo
\* 2^32.
C6_HandshakeValues ==
    ev.syn =>
        /\ Len(ev.frames) = 1
        /\ ev.frames[1].kind = "ACK_SYN"
        /\ ev.frames[1].sequence = ev.isn
        /\ ev.frames[1].acknowledgement = ModAdd(ev.peer_seq, 1)
        /\ fwd.tcp_sequence = Some(ModAdd(ev.isn, 1))
        /\ fwd.tcp_acknowledgement = Some(ModAdd(ev.peer_seq, 1))
        /\ rdr.tcp_recv_next = Some(ModAdd(ev.peer_seq, 1))

\* C7: a bare ACK tears the flow down by the LAST_ACK rule only after a FIN
\* was emitted toward the client.
C7_LastAckOnlyAfterFin == ev.torn = "last_ack" => gh.fins > 0

\* C8: once close() was called, a flow whose data the client has acknowledged
\* in full, with a non-zero window, is not torn down by the client's ACK or
\* FIN+ACK before a FIN was emitted toward the client.
C8_FinBeforeTeardown ==
    (ev.torn \in {"last_ack", "fin"} /\ gh.closed /\ ev.drained /\ ev.window # 0)
        => gh.fins > 0

\* C9: a fast retransmit happens only in the handling of a bare ACK on an
\* existing flow with at least DUPLICATES_BEFORE_FAST_RETRANSMISSION duplicates,
\* a non-zero window and no fast retransmit stamped within the last
\* RETRANSMISSION_COOL_DOWN ms; and apart from the worker's tick no step emits
\* bytes that were sent before unless it is such a fast retransmit.
C9_FastRetransmitGuard ==
    /\ ev.fr =>
          /\ ev.by = "ack"
          /\ ev.exist
          /\ ev.bare
          /\ ev.dup >= DUPLICATES_BEFORE_FAST_RETRANSMISSION
          /\ ev.window # 0
          /\ (IsSome(ev.since) => now - ev.since[1] >= RETRANSMISSION_COOL_DOWN)
    /\ (ev.retx > 0 /\ ev.by # "tick") => ev.fr

\* A fast retransmit that emitted a frame, after three duplicates that a window
\* of zero had kept from triggering one.
C9_FastRetransmitReached ==
    ev.fr /\ ev.retx > 0 /\ ev.dup > DUPLICATES_BEFORE_FAST_RETRANSMISSION

\* C10: two fast retransmits of one flow that each emitted a segment lie at
\* least RETRANSMISSION_COOL_DOWN ms apart.
C10_FastRetransmitsApart ==
    (ev.fr /\ ev.fr_out # <<>> /\ IsSome(ev.prev_fr_at)) =>
        now - ev.prev_fr_at[1] >= RETRANSMISSION_COOL_DOWN

\* C11: the flow's duplicate-ACK count is 0 after a bare ACK whose fast
\* retransmit emitted segments, and after an ACK that advanced the stored
\* acknowledgement of a flow that stays alive.
C11_DuplicateCountReset ==
    [][/\ (ev'.fr /\ ev'.fr_out # <<>>) => UnwrapOr(rdr'.tcp_duplicate, 0) = 0
       /\ (/\ IsSome(rdr.streams) /\ IsSome(rdr'.streams)
           /\ rdr'.tcp_acknowledgement # rdr.tcp_acknowledgement)
          => UnwrapOr(rdr'.tcp_duplicate, 0) = 0]_vars

\* C12: whenever send_tcp_ack returns Ok, the queue is empty or the cache has
\* filled the send window.
C12_SendTcpAckDrains ==
    \A s \in {send_tcp_ack(fwd, now)} :
        s.ok => \/ UnwrapOr(s.f.tcp_queue, <<>>) = <<>>
                \/ (IF IsSome(s.f.tcp_cache) THEN Queue_len(s.f.tcp_cache[1]) ELSE 0)
                       >= UnwrapOr(s.f.tcp_send_window, 0)

\* C13: after an ACK handled on a flow that stays alive, the Forwarder's send
\* window is the ACK's window field shifted left by the window scale of the
\* client's SYN.
C13_SendWindowUsesPeerWscale ==
    (ev.by = "ack" /\ ev.exist /\ "window" \in cfg.observe /\ IsSome(rdr.streams)) =>
        fwd.tcp_send_window = Some(Shl(ev.window, gh.wscale))

\* The payloads of `frames`, concatenated.
RECURSIVE Payloads(_)
Payloads(frames) ==
    IF frames = <<>> THEN <<>> ELSE Head(frames).payload \o Payloads(Tail(frames))

\* The effective maximum payload of a segment: the client's MSS if known, else
\* the MTU less the IPv4 and TCP headers.
EffectiveMss(f) ==
    IF IsSome(f.tcp_send_mss) THEN f.tcp_send_mss[1]
    ELSE Mtu - IPV4_HEADER_SIZE - Tcp_len(f.tcp_sacks)

\* C14: send_tcp_ack_raw, given the cache's left edge and bytes (the call of
\* retransmit_tcp_ack), emits ceil(len / m) segments of at most m bytes, the
\* i-th (from 0) at sequence seq + i * m modulo 2^32, that concatenate to the
\* bytes.
C14_Segmentation ==
    (IsSome(fwd.tcp_cache) /\ EffectiveMss(fwd) >= 1) =>
        LET seq == Queue_sequence(fwd.tcp_cache[1])
            bytes == Queue_get_all(fwd.tcp_cache[1])
            m == EffectiveMss(fwd)
        IN \A s \in {send_tcp_ack_raw(fwd, seq, bytes)} :
             /\ Len(s.out) = (Len(bytes) + m - 1) \div m
             /\ \A i \in 1..Len(s.out) :
                  /\ Len(s.out[i].payload) <= m
                  /\ s.out[i].sequence = ModAdd(seq, (i - 1) * m)
             /\ Payloads(s.out) = bytes

\* C15: for a flow with a send-side cache, the Forwarder's sequence is at or
\* after the cache's left edge (modulo 2^32, within the plausibility window)
\* and at most cache.len() past it.
C15_SequenceWithinCache ==
    IsSome(fwd.tcp_cache) =>
        LET d == ModSub(UnwrapOr(fwd.tcp_sequence, 0), Queue_sequence(fwd.tcp_cache[1]))
        IN d <= MAX_U32_WINDOW_SIZE /\ d <= Queue_len(fwd.tcp_cache[1])

\* The flow's sequence, queue and the length of its cache.
SendState(f) ==
    <<f.tcp_sequence, f.tcp_queue,
      IF IsSome(f.tcp_cache) THEN Queue_len(f.tcp_cache[1]) ELSE 0>>

\* The three retransmit methods, applied to the current state, leave the
\* sequence, the queue and the cache's length as they are.
RetransmitsKeepSendState ==
    /\ SendState(retransmit_tcp_ack(fwd).f) = SendState(fwd)
    /\ SendState(retransmit_tcp_ack_timedout(fwd, now).f) = SendState(fwd)
    /\ \A sk \in PeerSacks \ {None} :
          SendState(retransmit_tcp_ack_without(fwd, sk[1]).f) = SendState(fwd)

\* forward() of the bytes the worker may pass next, and send_tcp_ack itself,
\* applied to the current state, advance the sequence by the number of bytes
\* that left the queue, modulo 2^32.
SendAdvancesByMoved ==
    \A n \in 0..(cfg.max_fwd - gh.nfwd) :
        LET queued == UnwrapOr(fwd.tcp_queue, <<>>) \o [i \in 1..n |-> gh.nfwd + i]
        IN \A s \in {IF n = 0 THEN send_tcp_ack(fwd, now)
                     ELSE append_to_queue(fwd, [i \in 1..n |-> gh.nfwd + i], now)} :
             s.ok => UnwrapOr(s.f.tcp_sequence, 0)
                        = ModAdd(UnwrapOr(fwd.tcp_sequence, 0),
                                 Len(queued) - Len(UnwrapOr(s.f.tcp_queue, <<>>)))

\* send_tcp_ack_syn advances the sequence by 1 modulo 2^32.
SynAdvancesByOne ==
    UnwrapOr(send_tcp_ack_syn(fwd, None, None, FALSE).f.tcp_sequence, 0)
        = ModAdd(UnwrapOr(fwd.tcp_sequence, 0), 1)

\* C16: the retransmit methods never change the flow's sequence, its queue or
\* the cache's length; send_tcp_ack_syn changes the sequence by 1 and
\* send_tcp_ack by the number of bytes it moved from the queue into the cache.
C16_SequenceFrame ==
    RetransmitsKeepSendState /\ SendAdvancesByMoved /\ SynAdvancesByOne

\* C17: a step that emitted a FIN toward the client leaves the flow with its
\* fin mark set and with its queue and its cache empty (the FIN is the last
\* thing send_tcp_ack and retransmit_tcp_ack_timedout do).
C17_FinOnlyWhenDrained ==
    ev.nfin > 0 =>
        /\ IsSome(fwd.tcp_fin)
        /\ UnwrapOr(fwd.tcp_queue, <<>>) = <<>>
        /\ (IsSome(fwd.tcp_cache) => Queue_is_empty(fwd.tcp_cache[1]))

\* A FIN emitted for a flow that forwarded data, once the client has
\* acknowledged all of it and the cache, though present, is empty.
C17_FinAfterData ==
    /\ ev.nfin > 0
    /\ pc = "idle"
    /\ gh.nfwd > 0
    /\ gh.acked = gh.nfwd
    /\ IsSome(fwd.tcp_cache)
    /\ worker = "eof"
    /\ gh.fins = 1

\* ------------------------------------------------------------- C18
AllAlive(n) ==
    \A p \in LocalPorts : IsSome(n.datagrams[p]) => ~n.datagrams[p][1].is_closed

\* A datagram from a source port without a mapping, with the LRU full: the least
\* recently used local port goes to the new source port, the previous source
\* port loses its mapping, nothing is bound and the worker carries the new
\* source port.
ReusesLeastRecentlyUsed(src) ==
    (nat.datagram_map[src] = 0 /\ Lru_len(nat.udp_lru) = Lru_cap) =>
        LET victim == nat.udp_lru[Lru_len(nat.udp_lru)]
        IN /\ nev'.ok
           /\ nev'.port = victim.k
           /\ nat'.datagram_map[src] = victim.k
           /\ nat'.datagram_map[victim.v] = 0
           /\ ~nev'.bind_called
           /\ IsSome(nat'.datagrams[victim.k])
           /\ nat'.datagrams[victim.k][1].src_port = src

\* A datagram from a mapped source port: its entry becomes most recently used
\* and is not the one the next eviction takes.
TouchesMapped(src) ==
    nat.datagram_map[src] # 0 =>
        /\ nat'.udp_lru # <<>>
        /\ nat'.udp_lru[1] = [k |-> nat.datagram_map[src], v |-> src]
        /\ Lru_len(nat'.udp_lru) > 1 => Lru_pop_lru(nat'.udp_lru).pair.v # src

\* C18: with all datagram workers alive, a datagram from an unmapped source port
\* that finds the LRU full is given the least recently used local port, whose
\* previous source port becomes unmapped, without a bind, and the reused worker
\* gets the new source port; a datagram from a mapped source port makes its entry
\* the most recently used one, which the next eviction does not take.
C18_LruReuse ==
    [][(/\ nev'.by = "udp"
        /\ nev'.src \in DOMAIN nat.datagram_map
        /\ AllAlive(nat))
       => /\ ReusesLeastRecentlyUsed(nev'.src)
          /\ TouchesMapped(nev'.src)]_vars

\* ------------------------------------------------------------- C19
\* The source ports that have a local port, and the local ports a datagram can
\* be handed to: those some source port is mapped to.
MappedSources(n) == {s \in DOMAIN n.datagram_map : n.datagram_map[s] # 0}
SelectableWorkers(n) == {n.datagram_map[s] : s \in MappedSources(n)}

\* C19: in every reachable state at most PORT_COUNT source ports are mapped to
\* a local port and at most PORT_COUNT datagram workers can be selected to carry
\* traffic, also after workers have closed and been bound again.
C19_NatBounded ==
    /\ Cardinality(MappedSources(nat)) <= PORT_COUNT
    /\ Cardinality(SelectableWorkers(nat)) <= PORT_COUNT

\* ------------------------------------------------------------- C20
\* C20: a datagram from any 16-bit source port is looked up without an access
\* outside datagram_map: the array has an entry for the source port of every
\* datagram handled, and the lookup does not panic.
C20_LookupInRange ==
    nev.by = "udp" => /\ nev.src \in DOMAIN nat.datagram_map
                      /\ ~nat.panicked

\* ------------------------------------------------------------- C21
\* No per-flow entry of the key on either side.
NoFlowState(f, r) ==
    /\ \A k \in DOMAIN f : f[k] = None
    /\ \A k \in DOMAIN r : r[k] = None

\* C21: a RST on an existing flow removes every per-flow entry of the key from
\* the Redirector and from the Forwarder and emits no frame; a RST for a key
\* without a flow changes nothing.  Stated for handle_tcp_rst in every reachable
\* state, and for the state each RST step leaves behind.
C21_RstRemovesFlow ==
    /\ \A h \in {handle_tcp_rst(fwd, rdr)} :
          /\ h.out = <<>>
          /\ IsSome(rdr.streams) => NoFlowState(h.f, h.r)
          /\ ~IsSome(rdr.streams) => (h.f = fwd /\ h.r = rdr)
    /\ ev.torn = "rst" => NoFlowState(fwd, rdr)

\* A RST was handled on a flow that had carried data in both directions.
C21_RstOnLiveFlow ==
    ev.torn = "rst" /\ gh.nfwd > 0 /\ gh.nrecv > 0 /\ gh.sent_hi > 0

\* ------------------------------------------------------------- C22
\* C22: an ACK or FIN segment for a key without a flow makes the Forwarder emit
\* exactly one RST and leaves no per-flow entry on either side.
C22_StatelessRst ==
    ev.by = "noflow" =>
        /\ Len(ev.frames) = 1
        /\ ev.frames[1].kind = "RST"
        /\ NoFlowState(fwd, rdr)

\* A segment handled after the flow it belonged to, which had carried data both
\* ways, was torn down.
C22_SegmentAfterTeardown ==
    ev.by = "noflow" /\ gh.nfwd > 0 /\ gh.nrecv > 0 /\ ~IsSome(rdr.streams)

\* ------------------------------------------------------------- C23
\* C23: a SYN for a key that already has a flow emits no frame and changes
\* nothing the Redirector or the Forwarder holds for the flow.
C23_SynOnFlowDropped ==
    [][(ev'.by = "syn" /\ ev'.exist) =>
          /\ ev'.frames = <<>>
          /\ fwd' = fwd
          /\ rdr' = rdr
          /\ IsSome(rdr.streams)
          /\ worker' = worker
          /\ pc' = "idle"]_vars

\* A SYN handled on a flow that holds unacknowledged bytes in its send cache.
C23_SynOnFlowInFlight ==
    /\ ev.by = "syn" /\ ev.exist
    /\ IsSome(rdr.streams)
    /\ IsSome(fwd.tcp_cache) /\ Queue_len(fwd.tcp_cache[1]) > 0
    /\ gh.nrecv > 0

FinHandled(sq, l) ==
    LET tcp == [sequence |-> sq, acknowledgement |-> 0, window |-> 0, len |-> l,
                fin |-> TRUE, sack |-> None, ts |-> None]
        h == handle_tcp_fin(fwd, rdr, tcp, is_read_closed)
        rn == UnwrapOr(rdr.tcp_recv_next, 0)
        in_order == ModAdd(sq, l) = rn
        cache_empty == IsSome(rdr.tcp_cache) => Window_is_empty(rdr.tcp_cache[1])
    IN IF in_order /\ cache_empty
       THEN /\ Len(h.out) = 1
            /\ h.out[1].kind = "ACK"
            /\ h.out[1].payload = <<>>
            /\ h.out[1].acknowledgement = ModAdd(rn, 1)
            /\ IsSome(h.r.streams) =>
                  /\ h.f.tcp_acknowledgement = Some(ModAdd(rn, 1))
                  /\ h.r.tcp_recv_next = Some(ModAdd(rn, 1))
       ELSE /\ h.f.tcp_acknowledgement = fwd.tcp_acknowledgement
            /\ h.r.tcp_recv_next = rdr.tcp_recv_next
            /\ h.r.streams = rdr.streams
            /\ h.torn = "none"

\* C26: a client FIN whose sequence plus payload length equals recv_next, with
\* the reassembly cache empty, sets the Forwarder's acknowledgement to
\* recv_next + 1 and advances the Redirector's recv_next by 1, both modulo 2^32,
\* and emits one bare ACK; any other FIN changes neither value and closes
\* nothing.
C26_FinAdvancesByOne ==
    IsSome(rdr.streams) =>
        \A sq \in PeerSeqs, l \in cfg.seg_lens : FinHandled(sq, l)

\* ------------------------------------------------------------- C27
\* update_tcp_acknowledgement for any acknowledgement number behind the stored
\* one.
StaleAckKeepsRecord ==
    \A a \in 0..U32_MAX :
        LET stored == UnwrapOr(rdr.tcp_acknowledgement, 0)
            r1 == update_tcp_acknowledgement(rdr, [acknowledgement |-> a])
        IN ModSub(a, stored) > MAX_U32_WINDOW_SIZE =>
              /\ r1.tcp_acknowledgement = rdr.tcp_acknowledgement
              /\ r1.tcp_duplicate = rdr.tcp_duplicate

\* handle_tcp_ack for a bare ACK one behind the stored acknowledgement.
StaleAckHandled ==
    \A w \in cfg.peer_windows :
        LET stored == UnwrapOr(rdr.tcp_acknowledgement, 0)
            tcp == [sequence |-> UnwrapOr(rdr.tcp_recv_next, 0),
                    acknowledgement |-> ModSub(stored, 1), window |-> w, len |-> 0,
                    fin |-> FALSE, sack |-> None, ts |-> None]
            h == handle_tcp_ack(fwd, rdr, tcp, is_read_closed, now)
        IN IsSome(h.r.streams) =>
              /\ h.r.tcp_acknowledgement = rdr.tcp_acknowledgement
              /\ h.r.tcp_duplicate = rdr.tcp_duplicate

\* C27: an ACK whose acknowledgement number is behind the stored one (modular
\* difference greater than MAX_U32_WINDOW_SIZE) leaves the stored
\* acknowledgement and the duplicate count of the flow unchanged.
C27_StaleAckIgnored ==
    (IsSome(rdr.streams) /\ pc = "idle") => (StaleAckKeepsRecord /\ StaleAckHandled)

\* ------------------------------------------------------------- C28
\* The identification the next datagram to d carries.
Identification(i, d) == UnwrapOr(i.ipv4_identification_map[d], 0)

\* The datagrams to d that w emitted whole: those whose only or last fragment
\* reached the capture sender.
EmittedTo(w, d) == {k \in 1..Len(w.out) : w.out[k].dst = d /\ ~w.out[k].more_fragment}

\* The fragments of one UDP datagram carry one identification, the one the
\* destination had before; consecutive TCP segments carry consecutive ones.
StampedFrom(w, i) ==
    \A k \in 1..Len(w.out) :
        w.out[k].identification =
            (Identification(i, w.out[k].dst) + (IF w.by = "tcp" THEN k - 1 ELSE 0))
                % (U16_MAX + 1)

\* C28: for each destination IP, ipv4_identification increases by exactly one,
\* wrapping from u16::MAX to 0, per IPv4 datagram emitted whole: once per TCP
\* segment or unfragmented UDP datagram and once for a fragmented UDP datagram,
\* all of whose fragments carry the same identification.
C28_IdentificationPerDatagram ==
    [][/\ \A d \in Dsts :
            Identification(ip4', d) =
                (Identification(ip4, d) + Cardinality(EmittedTo(wire', d))) % (U16_MAX + 1)
       /\ StampedFrom(wire', ip4)]_vars

\* A datagram in three fragments was emitted whole and took the identification
\* of its destination from u16::MAX to 0.
C28_FragmentedAtWrap ==
    /\ wire.by = "udp" /\ wire.ok
    /\ Len(wire.out) = 3
    /\ wire.out[1].identification = U16_MAX
    /\ Identification(ip4, wire.dst) = 0

\* ------------------------------------------------------------- C29
\* The bytes of the UDP datagram (header and payload) a fragment carries.
FragmentLen(x) == (x.hi - x.lo) + (IF x.transport = "udp" THEN UDP_HEADER_SIZE ELSE 0)

\* The bytes of the UDP datagram carried by the fragments before the k-th.
RECURSIVE Preceding(_, _)
Preceding(out, k) == IF k = 1 THEN 0 ELSE Preceding(out, k - 1) + FragmentLen(out[k - 1])

\* C29: send_udp under an MTU of at least 36 emits fragments that cover the
\* UDP header and the payload once, in order, without gap or overlap; every
\* fragment but the last carries a multiple of 8 bytes, at most the MTU less
\* the IPv4 header; each fragment's offset is the number of bytes before it
\* divided by 8; only the first carries the UDP header; and the last of
\* several carries at least 8 bytes.
C29_Fragmentation ==
    (wire.by = "udp" /\ wire.ok) =>
        LET out == wire.out
            last == Len(out)
        IN /\ wire.fault = "none"
           /\ last >= 1
           /\ out[1].lo = 0 /\ out[last].hi = wire.payload_len
           /\ \A k \in 1..last :
                /\ out[k].lo <= out[k].hi
                /\ k < last => out[k].hi = out[k + 1].lo
                /\ k < last => (FragmentLen(out[k]) % 8 = 0
                                /\ FragmentLen(out[k]) <= ip4.mtu - IPV4_HEADER_SIZE)
                /\ out[k].fragment_offset * 8 = Preceding(out, k)
                /\ (out[k].transport = "udp") <=> (k = 1)
           /\ last > 1 => FragmentLen(out[last]) >= 8

\* A datagram went out in three fragments, the second shortened by 8 bytes so
\* that the last one is not shorter than 8.
C29_LastFragmentReserved ==
    /\ wire.by = "udp" /\ wire.ok
    /\ Len(wire.out) = 3
    /\ FragmentLen(wire.out[2]) = ((ip4.mtu - IPV4_HEADER_SIZE) \div 8) * 8 - 8
    /\ FragmentLen(wire.out[3]) < 16

\* ------------------------------------------------------------- C30
\* C30: Redirector::open returns only when the capture receiver yields an
\* error other than TimedOut; a TimedOut error, a frame that does not parse and
\* an error returned by handle_arp or handle_ipv4 (a SOCKS connect, bind or
\* stream failure among them) leave the loop running.
C30_OpenReturnsOnReceiverError ==
    [][/\ (capture.open /\ ~capture'.open) => capture'.last = "Other"
       /\ (capture'.last \in {"TimedOut", "unparsed", "handler_err", "handled"})
              => capture'.open]_vars

\* handle_udp returned the error of a failed bind and the loop runs on.
C30_BindFailureSurvived ==
    /\ capture.open
    /\ capture.last = "handler_err"
    /\ nev.by = "udp" /\ nev.bind_called /\ ~nev.ok

\* ------------------------------------------------------------- C32
\* C32: every sequence or acknowledgement addition of the Forwarder and the
\* Redirector is (a + n) mod 2^32, also when the sum crosses 2^32: the
\* acknowledgement advanced by add_tcp_acknowledgement, the sequence after the
\* segments of send_tcp_ack_raw, and the cache's right edge in
\* retransmit_tcp_ack_without.
C32_AdditionsModular ==
    IsSome(rdr.streams) =>
        /\ \A n \in 1..cfg.max_recv :
             add_tcp_acknowledgement(fwd, n).tcp_acknowledgement[1]
                 = ModAdd(UnwrapOr(fwd.tcp_acknowledgement, 0), n)
        /\ IsSome(fwd.tcp_cache) =>
             LET sequence == Queue_sequence(fwd.tcp_cache[1])
                 bytes == Queue_get_all(fwd.tcp_cache[1])
                 sent == send_tcp_ack_raw(fwd, sequence, bytes)
             IN /\ add_u32(sequence, Len(bytes)) = ModAdd(sequence, Len(bytes))
                /\ \A k \in 1..Len(sent.out) :
                     k > 1 => sent.out[k].sequence
                                  = ModAdd(sent.out[k - 1].sequence,
                                           Len(sent.out[k - 1].payload))

\* ------------------------------------------------------------- C39
\* C39: send_tcp_ack_raw returns for every non-empty payload and every MSS the
\* client can announce in its SYN, an MSS of 0 among them, so that forward()
\* and the retransmit calls return and release the Forwarder's mutex.
C39_SegmentationReturns ==
    /\ mutex = "free"
    /\ IsSome(rdr.streams) =>
         \A n \in 1..cfg.max_fwd :
            ~send_tcp_ack_raw(fwd, UnwrapOr(fwd.tcp_sequence, 0), [i \in 1..n |-> i]).spin

\* ------------------------------------------------------------- C31
\* C31: the receive loop holds the Forwarder's mutex at no suspension point and
\* never locks it while holding it, so that a worker's forward, tick or close
\* always gets the mutex in the end: whoever holds it lets go of it.
C31_MutexAlwaysReleased ==
    /\ [](pc # "idle" => mutex # "loop")
    /\ []<>(mutex = "free")

\* The locking discipline alone: no guard is alive where a handler suspends.
C31_NoGuardAcrossAwait == pc # "idle" => mutex # "loop"

\* ------------------------------------------------ the fold over SACK blocks
\* One turn of "for sack in sacks" in retransmit_tcp_ack_without: the ranges
\* left so far lose the next block.
DisjointStep ==
    /\ calc.k < Len(calc.subs)
    /\ calc' = [calc EXCEPT !.ranges = disjoint_all(@, calc.subs[calc.k + 1]),
                            !.k = @ + 1]
    /\ UNCHANGED <<cfg, fwd, rdr, pc, pending, worker, now, ev, gh, nat, nev, ip4, wire,
                   capture, mutex>>

NextDisjoint == DisjointStep

\* Ranges of up to MaxRange bytes starting below, at and across the wrap, and
\* lists of up to two blocks of one or two bytes that start at most MaxSlack
\* bytes before the range and at most MaxSlack bytes after its end.
MaxRange == 4
MaxSlack == 2
RangeStarts == {2, U32_MAX - 4, U32_MAX - 3, U32_MAX - 2, U32_MAX - 1, U32_MAX}
BlocksOf(main) ==
    {<<ModAdd(ModSub(main[1], MaxSlack), d), ModAdd(ModSub(main[1], MaxSlack), d + n)>> :
        d \in 0..(ModSub(main[2], main[1]) + 2 * MaxSlack), n \in 1..2}
DisjointInputs ==
    UNION {{[main |-> main, subs |-> subs] :
               subs \in {<<>>} \cup {<<a>> : a \in BlocksOf(main)}
                        \cup {<<a, b>> : a \in BlocksOf(main), b \in BlocksOf(main)}} :
           main \in {<<s, ModAdd(s, n)>> : s \in RangeStarts, n \in 0..MaxRange}}
DisjointScenario == [MainScenario EXCEPT !.disjoint = DisjointInputs, !.observe = {}]
SpecDisjoint == InitWith(DisjointScenario) /\ [][NextDisjoint]_vars

\* The sequence numbers of the half-open range [r[1], r[2]) in modular space.
RangeBytes(r) == {ModAdd(r[1], i) : i \in 0..(ModSub(r[2], r[1]) - 1)}
RangesBytes(rs) == UNION {RangeBytes(rs[i]) : i \in 1..Len(rs)}
\* No edge of the inputs has wrapped past 0.
Unwrapped(c) ==
    /\ c.main[1] <= c.main[2]
    /\ \A i \in 1..Len(c.subs) : c.main[1] <= c.subs[i][1] /\ c.subs[i][1] <= c.subs[i][2]

\* C33: after each block folded into the ranges by disjoint_u32_range, the
\* ranges cover exactly the bytes of main that none of the blocks folded so far
\* covers, also when main crosses the wrap.
C33_FoldIsDifference ==
    RangesBytes(calc.ranges) = RangeBytes(calc.main) \ RangesBytes(SubSeq(calc.subs, 1, calc.k))

\* The same where no edge has wrapped.
C33_FoldIsDifferenceUnwrapped == Unwrapped(calc) => C33_FoldIsDifference

\* ------------------------------------------------ frames on the capture sender
MINIMUM_PACKET_SIZE == 60
ETHERNET_HEADER_SIZE == 14
ARP_SIZE == 28
\* tcp.len() for every length of the options.
TcpLens == {TCP_HEADER_SIZE + 4 * k : k \in 0..10}

\* The buffer send_with_payload would hand to the sender without the padding.
send_with_payload_exact(size, payload_len) ==
    [i \in 1..(size + payload_len) |-> IF i <= size THEN "layer" ELSE "payload"]

\* The buffer Forwarder::send hands to self.tx.send_to for an indicator of
\* size bytes: zeros, the layers serialized into its first size bytes.
send(size) ==
    LET buffer_size == Max(size, MINIMUM_PACKET_SIZE)
    IN [i \in 1..buffer_size |-> IF i <= size THEN "layer" ELSE 0]

\* The buffer Forwarder::send_with_payload hands to self.tx.send_to.
send_with_payload(size, payload_len) ==
    LET buffer_size == Max(size + payload_len, MINIMUM_PACKET_SIZE)
    IN [i \in 1..buffer_size |->
           IF i <= size THEN "layer" ELSE IF i <= size + payload_len THEN "payload" ELSE 0]

\* send_ethernet for an IPv4 datagram or fragment whose transport header is
\* transport_len bytes: the serialized length and the buffer.
send_ethernet(ipv4, transport_len) ==
    LET size == ETHERNET_HEADER_SIZE + IPV4_HEADER_SIZE + transport_len
        payload_len == ipv4.hi - ipv4.lo
    IN [serialized |-> size + payload_len, buffer |-> send_with_payload(size, payload_len)]

\* What the last step handed to the capture sender.
Sent(w) ==
    IF w.by = "arp"
    THEN {[serialized |-> ETHERNET_HEADER_SIZE + ARP_SIZE,
           buffer |-> send(ETHERNET_HEADER_SIZE + ARP_SIZE)]}
    ELSE UNION {{send_ethernet(w.out[k], transport_len) :
                    transport_len \in IF w.out[k].transport = "tcp" THEN TcpLens
                                      ELSE IF w.out[k].transport = "udp"
                                      THEN {UDP_HEADER_SIZE} ELSE {0}} :
                k \in 1..Len(w.out)}

NextFrames ==
    \/ Next
    \/ DatagramForward
    \/ HandleArp

\* A flow, datagrams of 0 and 3000 bytes from the proxy, and ARP requests.
FramesScenario ==
    [Ipv4Scenario EXCEPT !.fails = {0}, !.max_fwd = 1, !.max_recv = 1,
                         !.observe = {"ipv4", "frames"}]
SpecFrames == InitWith(FramesScenario) /\ [][NextFrames]_vars

\* C34: every frame handed to the capture sender (ARP reply, TCP segment, UDP
\* datagram or fragment) has at least MINIMUM_PACKET_SIZE bytes, and its bytes
\* beyond the serialized layers and payload are zero.
C34_FramesPadded ==
    \A s \in Sent(wire) :
        /\ Len(s.buffer) >= MINIMUM_PACKET_SIZE
        /\ Len(s.buffer) >= s.serialized
        /\ \A i \in (s.serialized + 1)..Len(s.buffer) : s.buffer[i] = 0

\* A datagram without payload went out: 42 bytes of layers, padded.
C34_ShortDatagramPadded ==
    /\ wire.by = "udp"
    /\ wire.payload_len = 0
    /\ \E s \in Sent(wire) : s.serialized < MINIMUM_PACKET_SIZE /\ Len(s.buffer) = MINIMUM_PACKET_SIZE

\* C35: update_tcp_acknowledgement counts an ACK as a duplicate exactly when
\* its number equals the stored one, and an ACK ahead of the stored number by
\* 1..MAX_U32_WINDOW_SIZE in modular space becomes the stored number and resets
\* the duplicate count, also across the wrap.
C35_AckClassified ==
    IsSome(rdr.tcp_acknowledgement) =>
        \A acknowledgement \in 0..U32_MAX :
            LET stored_ack == rdr.tcp_acknowledgement[1]
                after == update_tcp_acknowledgement(rdr, [acknowledgement |-> acknowledgement])
                counted == after.tcp_duplicate = Some(UnwrapOr(rdr.tcp_duplicate, 0) + 1)
                ahead == ModSub(acknowledgement, stored_ack)
            IN /\ counted <=> acknowledgement = stored_ack
               /\ ahead \in 1..MAX_U32_WINDOW_SIZE =>
                      /\ after.tcp_acknowledgement = Some(acknowledgement)
                      /\ after.tcp_duplicate = Some(0)

\* C36: while a flow lives and the receive loop is between two segments, the
\* acknowledgement number the Forwarder puts into its segments equals the
\* Redirector's recv_next, whatever the client's sequence numbers are.
C36_AcknowledgementIsRecvNext ==
    LiveFlow => fwd.tcp_acknowledgement = rdr.tcp_recv_next

\* The LRU holds the entry local port p -> source port s.
LruHolds(n, p, s) == \E i \in 1..Len(n.udp_lru) : n.udp_lru[i].k = p /\ n.udp_lru[i].v = s

\* C37: the two views of the UDP NAT are inverse to each other: a source port s
\* is mapped to the local port p in datagram_map exactly when the LRU holds
\* p -> s, also after a closed worker was bound again and after an insertion
\* into the full LRU.
C37_NatViewsInverse ==
    ~nat.panicked =>
        \A s \in DOMAIN nat.datagram_map, p \in LocalPorts :
            nat.datagram_map[s] = p <=> LruHolds(nat, p, s)

\* What a callback of the worker leaves of the Forwarder: no frame, and no
\* per-flow entry of the key.
Inert(res) == res.out = <<>> /\ NoFlowState(res.f, RedirectorNew)

\* C38: in the state a teardown leaves (RST, LAST_ACK, FIN teardown, stream
\* error), forward(), tick() and close() called by the worker of the flow that
\* is gone emit no frame and leave no per-flow entry in the Forwarder.
C38_LateCallbackInert ==
    ev.torn # "none" =>
        /\ \A n \in 1..cfg.max_fwd : Inert(ForwardStream_forward(fwd, [i \in 1..n |-> i], now))
        /\ Inert(ForwardStream_tick(fwd, now))
        /\ Inert(ForwardStream_close(fwd, now))

\* The same for tick() alone.
C38_LateTickInert == ev.torn # "none" => Inert(ForwardStream_tick(fwd, now))

\* The window the Forwarder advertises, scaled back by the window scale
\* announced to the client, is within what the reassembly window can take.
AdvertisedWithinCapacity ==
    Shl(fwd.tcp_window[1], UnwrapOr(rdr.tcp_wscale, 0))
        <= Window_remaining_size(rdr.tcp_cache[1])

\* The value handle_tcp_ack converts to 16 bits fits 16 bits.
AdvertisedKeepsHighBits ==
    Shl(Window_remaining_size(rdr.tcp_cache[1]), UnwrapOr(rdr.tcp_wscale, 0)) <= U16_MAX

\* C40: between two segments of a live flow the advertised 16-bit window times
\* 2^wscale does not exceed the remaining capacity of the reassembly window,
\* and the value set_tcp_window stored was computed from remaining_size without
\* losing high bits in the conversion to 16 bits.
C40_AdvertisedWindow ==
    (LiveFlow /\ IsSome(fwd.tcp_window) /\ IsSome(rdr.tcp_cache)) =>
        (AdvertisedWithinCapacity /\ AdvertisedKeepsHighBits)

\* The first half alone.
C40_WithinCapacity ==
    (LiveFlow /\ IsSome(fwd.tcp_window) /\ IsSome(rdr.tcp_cache)) => AdvertisedWithinCapacity

\* The 16-bit fields scaled to 0..3 and segments that arrive two bytes ahead of
\* what the Redirector expects: the reassembly window of capacity 3 << 1 holds
\* up to three bytes.
AheadScenario == [DrainScenario EXCEPT !.seq_offsets = {0, 2}, !.max_fwd = 1]
SpecAhead == InitWith(AheadScenario) /\ [][Next]_vars

====
